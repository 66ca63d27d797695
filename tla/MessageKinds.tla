---------------------------- MODULE MessageKinds ----------------------------
(***************************************************************************)
(* What becomes of one message of WhatsApp: the handler that its fields    *)
(* select (whatsmeow_handlers_message_extensions.go, _list.go and          *)
(* _template.go in src/src/whatsmeow), the options that let it pass        *)
(* (src/src/whatsapp/whatsapp_options_extended.go), and the queue of       *)
(* RabbitMQ it is meant for (src/src/models/qp_dispatching.go).            *)
(*                                                                         *)
(* An incoming message is the set of its fields that are not nil, whether  *)
(* its text is empty, the quoted message it names, and for three of its    *)
(* fields a variant.  Of what the handlers fill in, a message keeps what   *)
(* a later step asks for.                                                  *)
(***************************************************************************)
EXTENDS Integers, Sequences, FiniteSets

Fields == {"image", "sticker", "document", "audio", "video", "extended",
    "ephemeral", "buttons", "location", "live location", "contact", "reaction",
    "edited", "protocol", "template", "template reply", "contacts", "list",
    "sender key", "sticker sync", "conversation"}

Types == {"unhandled", "view_once", "image", "document", "audio", "video", "text",
    "location", "contact", "call", "system", "group", "revoke"}

Chats == {"private", "group", "status", "system"}

\* a message as the type is made; the zero of its type is unhandled; left is a
\* history field, the messages of its batch that were left when it was handled
Blank == [type |-> "unhandled", id |-> "own", chat |-> "private", empty |-> TRUE,
          attachment |-> FALSE, reply |-> FALSE, edited |-> FALSE,
          reaction |-> FALSE, debug |-> FALSE, history |-> FALSE, left |-> 0,
          extra |-> 0]

SystemMessage == [Blank EXCEPT !.type = "system", !.chat = "system", !.empty = FALSE]

-----------------------------------------------------------------------------
(* The handlers, given the message made so far and the incoming one.       *)

Text(o, in) == [o EXCEPT !.type = "text", !.empty = in.empty]
Attached(o, type) == [o EXCEPT !.type = type, !.attachment = TRUE]
Captioned(o, type, in) == [Attached(o, type) EXCEPT !.empty = in.empty]
Quoting(o, in) == [o EXCEPT !.reply = in.reply]
Discarded(o) == [o EXCEPT !.type = "unhandled", !.debug = TRUE]
OfKey(o) == [o EXCEPT !.id = "key"]

HandleTextMessage(o, in) == Text(o, in)

HandleImageMessage(o, in) == Quoting(Captioned(o, "image", in), in)

HandleStickerMessage(o, in) ==
    Attached(o, IF in.variant = "animated" THEN "video" ELSE "image")

HandleVideoMessage(o, in) == Quoting(Captioned(o, "video", in), in)

HandleDocumentMessage(o, in) == Quoting(Captioned(o, "document", in), in)

HandleAudioMessage(o, in) == Quoting(Attached(o, "audio"), in)

HandleLocationMessage(o, in) == Attached(o, "location")

HandleLiveLocationMessage(o, in) == Captioned(o, "location", in)

HandleContactMessage(o, in) == Captioned(o, "contact", in)

HandleExtendedTextMessage(o, in) == Quoting(Text(o, in), in)

HandleButtonsResponseMessage(o, in) == Quoting(Text(o, in), in)

\* a reaction quotes what it reacts to; an empty one takes it back
HandleReactionMessage(o, in) == [Text(o, in) EXCEPT !.reaction = TRUE, !.reply = TRUE]

\* the text is that of the protocol buffer
HandleEditTextMessage(o, in) == [Text(o, in) EXCEPT !.empty = FALSE]

HandleListMessage(o, in) == Quoting([Text(o, in) EXCEPT !.empty = FALSE], in)

\* a warning is logged, and nothing filled in
HandleEphemeralMessage(o) == o

HandleProtocolMessage(o, in) ==
    CASE in.variant = "edit"   -> [OfKey(Text(o, in)) EXCEPT !.edited = TRUE]
      [] in.variant = "revoke" -> [OfKey(o) EXCEPT !.type = "revoke"]
      [] in.variant = "history notification" -> [Discarded(o) EXCEPT !.empty = FALSE]
      [] OTHER -> Discarded(o)

HandleHydratedTemplate(o, in) == Text(o, in)

HandleTemplateMessage(o, in) ==
    IF in.variant = "hydrated" THEN HandleHydratedTemplate(Quoting(o, in), in) ELSE o

HandleTemplateButtonReplyMessage(o, in) == Quoting([Text(o, in) EXCEPT !.empty = FALSE], in)

\* the first contact of an array; without contacts there is only the type
HandleContactsArrayMessage(o, in) ==
    IF in.contacts = 0 THEN [o EXCEPT !.type = "contact"] ELSE Captioned(o, "contact", in)

\* the other contacts, each a message of its own, made of few fields of it
ExtraContacts(o, in) ==
    {[Blank EXCEPT !.type = "contact", !.chat = o.chat, !.empty = in.empty,
                   !.attachment = TRUE, !.id = "suffixed", !.left = o.left, !.extra = n] :
        n \in 2..in.contacts}

\* in this order the fields are asked for
Order == <<"image", "sticker", "document", "audio", "video", "extended", "ephemeral",
    "buttons", "location", "live location", "contact", "reaction", "edited", "protocol",
    "template", "template reply", "contacts", "list", "sender key", "sticker sync",
    "conversation">>

\* the field whose handler is called; an empty conversation calls none
Present(in) == in.fields \ (IF in.empty THEN {"conversation"} ELSE {})
Selected(in) ==
    IF Present(in) = {} THEN "none"
    ELSE Order[CHOOSE i \in DOMAIN Order : /\ Order[i] \in Present(in)
                                           /\ \A j \in 1..(i - 1) : Order[j] \notin Present(in)]

HandleKnowingMessages(o, in) ==
    LET f == Selected(in) IN
    CASE f = "image"          -> HandleImageMessage(o, in)
      [] f = "sticker"        -> HandleStickerMessage(o, in)
      [] f = "document"       -> HandleDocumentMessage(o, in)
      [] f = "audio"          -> HandleAudioMessage(o, in)
      [] f = "video"          -> HandleVideoMessage(o, in)
      [] f = "extended"       -> HandleExtendedTextMessage(o, in)
      [] f = "ephemeral"      -> HandleEphemeralMessage(o)
      [] f = "buttons"        -> HandleButtonsResponseMessage(o, in)
      [] f = "location"       -> HandleLocationMessage(o, in)
      [] f = "live location"  -> HandleLiveLocationMessage(o, in)
      [] f = "contact"        -> HandleContactMessage(o, in)
      [] f = "reaction"       -> HandleReactionMessage(o, in)
      [] f = "edited"         -> HandleEditTextMessage(o, in)
      [] f = "protocol"       -> HandleProtocolMessage(o, in)
      [] f = "template"       -> HandleTemplateMessage(o, in)
      [] f = "template reply" -> HandleTemplateButtonReplyMessage(o, in)
      [] f = "contacts"       -> HandleContactsArrayMessage(o, in)
      [] f = "list"           -> HandleListMessage(o, in)
      [] f = "conversation"   -> HandleTextMessage(o, in)
      [] OTHER                -> Discarded(o)

Extras(o, in) == IF Selected(in) = "contacts" THEN ExtraContacts(o, in) ELSE {}

-----------------------------------------------------------------------------
(* Options: of the service, -2 and 2 are forced; of a bot, 0 is unset.     *)

ToBoolean(v, default) == IF v = 0 THEN default ELSE v > 0

Option(service, local, default) ==
    IF service \in {-2, 2} \/ local = 0 THEN ToBoolean(service, default) ELSE local > 0

FromGroup(m) == m.chat = "group"
FromBroadcast(m) == m.chat = "status"

(* What is left out on its way to the dispatchings, and the queue of what  *)
(* is not.  A history message goes to its own queue, whatever it is.       *)

IsValidForDispatch(m, dispatchUnhandled) ==
    dispatchUnhandled \/ ~(\/ m.type = "unhandled"
                           \/ m.type = "text" /\ m.empty /\ ~m.reaction)

IsEventMessage(m) ==
    \/ m.type = "unhandled"
    \/ m.type = "contact" /\ m.edited /\ m.attachment
    \/ m.id = "readreceipt"

\* as if an event were an event before it is history
DetermineRoutingKey_EventsFirst(m) ==
    IF IsEventMessage(m) THEN "events" ELSE IF m.history THEN "history" ELSE "prod"

DetermineRoutingKey(m) ==
    IF m.history THEN "history" ELSE IF IsEventMessage(m) THEN "events" ELSE "prod"

=============================================================================
