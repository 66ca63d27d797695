------------------------------- MODULE Routes -------------------------------
(***************************************************************************)
(* What each handler of HTTP requests does, in its order: the API of       *)
(* api/, the web forms of form/ and the tools of mcp/.  A route is a       *)
(* sequence of steps.  A step either reads the request alone (Inputs) and  *)
(* may refuse it, or touches the bots and the database, which ControlPlane *)
(* gives a meaning.  The texts of answers are left out; their codes and    *)
(* what was done before them are kept.                                     *)
(***************************************************************************)
EXTENDS Integers, Sequences

(* Steps on a message that is in the cache of the bot; the code calls the  *)
(* connection without asking whether there is one ("raw").                 *)
OnMessage == <<"message", "raw", "call">>

(* The managers of groups and of contacts ask for a valid connection.      *)
ThroughGroupManager == <<"connection">>
ThroughContactManager == <<"connection">>

-----------------------------------------------------------------------------
(* The manager of groups of a connection holds the client it has found     *)
(* ("client") and parses the JIDs; then it queries WhatsApp, or requests a *)
(* change.                                                                 *)

GetInvite == <<"client", "parse", "query">>

(* Participants without a contact are shown by their number.               *)
GetJoinedGroups == <<"client", "query", "names">>

GetGroupInfo == <<"client", "parse", "query", "names">>

CreateGroupExtended == <<"client", "parse", "request">>

(* The new subject is answered with the information of the group, which is *)
(* queried after the change.                                               *)
UpdateGroupSubject == <<"client", "parse", "request", "query">>

UpdateGroupTopic == <<"client", "parse", "request", "query">>

UpdateGroupPhoto == <<"client", "parse", "request">>

UpdateGroupParticipants == <<"client", "parse", "request">>

GetGroupJoinRequests == <<"client", "parse", "query">>

HandleGroupJoinRequests == <<"client", "parse", "request">>

LeaveGroup == <<"client", "parse", "request">>

-----------------------------------------------------------------------------
(* The manager of contacts and the connection use the field that holds the *)
(* client ("read" asks, "call" changes), although it may have been tested  *)
(* before.  A mapping between phone and LID is looked up in the maps of    *)
(* the process first: known or not, depending on what was asked before.    *)

IsOnWhatsApp == <<"read">>

GetProfilePicture == <<"parse", "read">>

(* A phone without a LID is no error.                                      *)
GetLIDFromPhone(known) == IF known THEN <<>> ELSE <<"client", "pairs">>

GetPhoneFromLID(known) == IF known THEN <<>> ELSE <<"client", "parse", "read">>

(* The store of contacts and pairs completes what WhatsApp has answered.   *)
GetUserInfo == <<"client", "parse", "read", "pairs">>

(* A file is uploaded before the message is sent.                          *)
UploadAttachment == <<"read">>
Send(upload) == <<"parse">> \o (IF upload THEN UploadAttachment ELSE <<>>) \o <<"call">>

SendChatPresence == <<"client", "parse", "call">>
MarkChatAsRead == <<"client", "parse", "call">>
MarkChatAsUnread == <<"client", "parse", "call">>
ArchiveChat == <<"client", "parse", "call">>

(* Its error is ignored.                                                   *)
HistorySync == <<"sync">>

-----------------------------------------------------------------------------
(* Groups.                                                                 *)

GetGroupController == <<"bot", "group">> \o ThroughGroupManager \o GetGroupInfo

FetchAllGroupsController == <<"bot">> \o ThroughGroupManager \o GetJoinedGroups

CreateGroupController ==
    <<"bot", "body", "title", "length", "participants">>
        \o ThroughGroupManager \o CreateGroupExtended

SetGroupNameController ==
    <<"bot", "body", "group", "name">> \o ThroughGroupManager \o UpdateGroupSubject

(* The picture is downloaded and its size checked, unless it is removed.   *)
SetGroupPhotoController(remove) ==
    <<"bot", "body", "group">>
        \o (IF remove THEN <<>> ELSE <<"url", "download", "size">>)
        \o ThroughGroupManager \o UpdateGroupPhoto

UpdateGroupParticipantsController ==
    <<"bot", "body", "group", "participants", "action">>
        \o ThroughGroupManager \o UpdateGroupParticipants

GroupMembershipRequestsController(get) ==
    <<"bot", "body", "group", "action">>
        \o (IF get THEN ThroughGroupManager \o GetGroupJoinRequests
            ELSE <<"participants">> \o ThroughGroupManager \o HandleGroupJoinRequests)

SetGroupTopicController == <<"bot", "body", "group">> \o ThroughGroupManager \o UpdateGroupTopic

LeaveGroupController == <<"body", "chat", "bot", "group">> \o ThroughGroupManager \o LeaveGroup

InviteController == <<"bot", "chat", "group">> \o ThroughGroupManager \o GetInvite

-----------------------------------------------------------------------------
(* Chats and contacts.  The three operations on a chat cast the connection *)
(* to its concrete type ("cast"), which panics where there is none.        *)

ArchiveChatController ==
    <<"bot", "body", "chat", "endpoint", "ready", "cast">> \o ArchiveChat

MarkChatAsReadController ==
    <<"bot", "body", "chat", "endpoint", "ready", "cast">> \o MarkChatAsRead

MarkChatAsUnreadController ==
    <<"bot", "body", "chat", "endpoint", "ready", "cast">> \o MarkChatAsUnread

(* The indicator of the chat that is still running is cancelled, the new   *)
(* one sent, and the goroutine that will take it back started.             *)
ChatPresenceController ==
    <<"bot", "body", "chat", "endpoint", "ready", "cancel", "connection">>
        \o SendChatPresence \o <<"append">>

(* Contacts also come from the store, without a connection.                *)
ContactsController == <<"bot", "store">>

ContactSearchController == <<"bot", "body", "phone", "store">>

GetPhoneController(known) ==
    <<"bot", "ready", "lid", "suffix">> \o ThroughContactManager \o GetPhoneFromLID(known)

GetUserIdentifierController(byPhone, known) ==
    IF byPhone
    THEN <<"phone or lid", "phone", "bot", "ready">>
             \o ThroughContactManager \o GetLIDFromPhone(known)
    ELSE <<"phone or lid", "bot", "ready">>
             \o ThroughContactManager \o GetPhoneFromLID(known)

IsOnWhatsappController == <<"body", "list", "bot">> \o ThroughContactManager \o IsOnWhatsApp

UserInfoController ==
    <<"bot", "ready", "body", "jids", "endpoint">> \o ThroughContactManager \o GetUserInfo

PictureController ==
    <<"bot", "ready", "body", "endpoint">>
        \o ThroughContactManager \o GetProfilePicture \o <<"download">>

-----------------------------------------------------------------------------
(* Messages.                                                               *)

(* Where the content of a message comes from: a URL, a text in base 64 or  *)
(* the body; it may also have none.                                        *)
GenerateUrlContent == <<"download">>
GenerateEmbedContent == <<"content">>
GenerateBodyContent == <<"content">>
Contents == {<<>>, GenerateUrlContent, GenerateEmbedContent}

(* What a message takes with it, the empty sequence if that is no file.    *)
Files == Contents \ {<<>>}

(* An audio with a text is two messages, the text first.  Numbers of nine  *)
(* digits are looked up before anything is sent.                           *)
SendMessage(audio, content) ==
    <<"connection", "digit 9">> \o (IF audio THEN Send(FALSE) ELSE <<>>)
        \o Send(content \in Files)

(* The form of an attachment is corrected, never refused.                  *)
ToWhatsappAttachment == <<>>

ToWhatsappMessage == <<"endpoint">>

(* The destination is converted between phone and LID, which never refuses. *)
SendWithMessageType(audio, content) ==
    ToWhatsappMessage \o <<"poll", "type", "ready", "convert">> \o SendMessage(audio, content)

SendRequest(audio, content) ==
    ToWhatsappAttachment \o <<"text">> \o SendWithMessageType(audio, content)

EnsureValidChatId == <<"chat", "endpoint">>

SendAnyWithServer(audio, content) ==
    <<"body">> \o EnsureValidChatId \o content \o SendRequest(audio, content)

SendAny(audio, content) == <<"bot">> \o SendAnyWithServer(audio, content)

(* A document: the same with the type forced, and no place for a location  *)
(* or a contact.                                                           *)
SendDocument(content) ==
    <<"bot", "body">> \o EnsureValidChatId \o content \o <<"attachment">>
        \o SendWithMessageType(FALSE, content)

SendDocumentFromBinary ==
    <<"bot">> \o EnsureValidChatId \o GenerateBodyContent
        \o SendRequest(FALSE, GenerateBodyContent)

(* Any bot that is ready sends, if the master key is given.                *)
Spam == <<"master", "first">> \o SendAnyWithServer(FALSE, <<>>)

GetMessageController == <<"bot", "id", "message">>

DownloadController == <<"bot", "ready", "id">> \o OnMessage

(* By prefix, which is the default, there may be no message at all, or     *)
(* several: each is tried.                                                 *)
RevokeController(prefix) ==
    <<"bot", "id">> \o (IF prefix THEN <<"each">> ELSE OnMessage)

EditMessageController == <<"body", "text", "id", "bot">> \o OnMessage

MarkReadController == <<"bot", "body", "list", "each">>

(* With a timestamp the history is asked for first; its error is ignored.  *)
ReceiveAPIHandler(timestamp) ==
    <<"bot", "ready", "timestamp">> \o (IF timestamp THEN <<"raw">> \o HistorySync ELSE <<>>)

RedispatchAPIHandler == <<"bot", "id", "message", "post">>

-----------------------------------------------------------------------------
(* Bots, their configuration and their users.                              *)

(* Save asks whether the row exists and then updates or adds it.           *)
Save == <<"exists", "write">>

InformationPostRequest == <<"token", "user", "body", "lookup", "settle">> \o Save

InformationGetRequest(token) == IF token THEN <<"bot">> ELSE <<>>

InformationControllerV3 == <<"bot">>

InformationPatchRequest == <<"body", "bot", "set">> \o Save

InformationDeleteRequest == <<"bot", "logout", "clear", "delete", "forget">>

CommandController(action) ==
    <<"bot", "action">> \o
    CASE action = "start"   -> <<"start">>
      [] action = "stop"    -> <<"stop">>
      [] action = "restart" -> <<"stop", "start">>
      [] action = "toggle"  -> <<"toggle">> \o Save

AccountController == <<"master", "method", "body", "password">> \o <<"user", "strength", "account">>

WebhookController(get) == <<"bot", "body">> \o (IF get THEN <<>> ELSE <<"dispatching">>)

RabbitMQController(get) ==
    <<"bot", "body">> \o (IF get THEN <<>> ELSE <<"connection string", "dispatching">>)

(* A new connection, not yet of any bot, shows its code.  The page of the  *)
(* form asks without a token.                                              *)
ScannerController == <<"token", "user", "new connection", "code">>

PairCodeController == <<"token", "user", "new connection", "phone", "code">>

(* The precedence of the three credentials; with none of them only the     *)
(* application answers.                                                    *)
HealthController(credential) ==
    CASE credential = "master"   -> <<"all">>
      [] credential = "user"     -> <<"user", "all">>
      [] credential = "token"    -> <<"bot">>
      [] credential = "none"     -> <<>>

EnvironmentController == <<>>

-----------------------------------------------------------------------------
(* Web forms: a cookie identifies the user.  A user who is not found is    *)
(* answered 200, a bot that is not found with nothing at all.              *)

GetUserAndServer == <<"cookie", "user", "bot">>

FormDebugController == GetUserAndServer \o <<"toggle">> \o Save

FormToggleController(key) ==
    GetUserAndServer \o <<"key">> \o
    CASE key = "server"      -> <<"switch">>
      [] key = "option"      -> <<"toggle">> \o Save
      [] key = "dispatching" -> <<"stored", "dispatching">>

FormDeleteController(server) ==
    GetUserAndServer \o <<"key">> \o
    IF server THEN <<"logout", "clear", "delete", "forget">> ELSE <<"dispatching">>

FormAccountController == <<"cookie", "user", "all">>

VerifyHandler == <<"cookie", "user", "upgrade", "new page">>

FormWebHooksController == <<"cookie", "user", "bot">>

FormRabbitMQController == <<"cookie", "user", "bot", "stored">>

(* Sending from the form: no test of readiness.                            *)
FormSendController(audio, content) ==
    <<"cookie", "bot", "upload", "chat">> \o SendMessage(audio, content)

FormSendPage == <<"cookie", "bot">>

(* Being not ready is noted on the page and changes nothing else.          *)
FormReceiveController(timestamp) ==
    <<"cookie", "bot">> \o (IF timestamp THEN <<"raw">> \o HistorySync ELSE <<>>)

SetupHandler == <<"email and password", "email", "confirmation", "strength", "absent", "account">>

LoginHandler == <<"email and password", "password">>

-----------------------------------------------------------------------------
(* MCP: the bearer is the master key or the token of a bot; the body names *)
(* a tool.  A tool of the API calls its handler, which finds the bot once  *)
(* more.                                                                   *)

Authenticate == <<"enabled", "bearer">>

HandleToolCall(tool) == <<"parameters", "tool">> \o tool

MCPHandleRequest(tool) == Authenticate \o <<"json", "method">> \o HandleToolCall(tool)

APIHandlerTool(handler) == <<"arguments">> \o handler

HealthTool == <<"all">>

ListServersTool == <<"all">>

-----------------------------------------------------------------------------
(* The tables of routes.                                                   *)

Actions == {"start", "stop", "restart", "toggle"}

(* Whether a message is an audio with a text, and its content.             *)
Sent == {<<FALSE, c>> : c \in Contents} \cup {<<TRUE, c>> : c \in Files}

Sending == {SendAny(s[1], s[2]) : s \in Sent} \cup {SendDocument(c) : c \in Files}

RegisterAPIV3Controllers ==
    {InformationControllerV3, SendDocumentFromBinary, DownloadController,
     PictureController, InviteController}
    \cup UNION {{ReceiveAPIHandler(b), WebhookController(b)} : b \in BOOLEAN}
    \cup Sending

RegisterAPIControllers ==
    {HealthController(c) : c \in {"master", "user", "token", "none"}}
    \cup {CommandController(a) : a \in Actions}
    \cup UNION {{InformationGetRequest(b), RevokeController(b),
        ReceiveAPIHandler(b), WebhookController(b), RabbitMQController(b),
        SetGroupPhotoController(b), GroupMembershipRequestsController(b),
        GetPhoneController(b)} : b \in BOOLEAN}
    \cup {GetUserIdentifierController(a, b) : a, b \in BOOLEAN}
    \cup Sending
    \cup {EnvironmentController, AccountController, InformationPostRequest,
        InformationPatchRequest, InformationDeleteRequest, ScannerController,
        PairCodeController, GetMessageController, MarkReadController,
        SendDocumentFromBinary, RedispatchAPIHandler,
        DownloadController, PictureController, InviteController,
        ContactsController, ContactSearchController, IsOnWhatsappController,
        UserInfoController, Spam,
        FetchAllGroupsController, GetGroupController, CreateGroupController,
        LeaveGroupController, SetGroupNameController, SetGroupTopicController,
        UpdateGroupParticipantsController, ChatPresenceController,
        MarkChatAsReadController, MarkChatAsUnreadController,
        ArchiveChatController, EditMessageController}

RegisterFormAuthenticatedControllers ==
    {VerifyHandler, FormAccountController, FormWebHooksController,
     FormRabbitMQController, FormDebugController}
    \cup {FormToggleController(k) : k \in {"server", "option", "dispatching"}}
    \cup UNION {{FormDeleteController(b), FormReceiveController(b)} : b \in BOOLEAN}
    \cup {FormSendController(s[1], s[2]) : s \in Sent} \cup {FormSendPage}

RegisterFormControllers == {LoginHandler, SetupHandler}

(* Every documented handler of the API becomes a tool.                     *)
RegisterAPITools == {APIHandlerTool(r) : r \in RegisterAPIControllers}

RegisterTools == {MCPHandleRequest(r) : r \in {HealthTool, ListServersTool} \cup RegisterAPITools}

AllRoutes == RegisterAPIControllers \cup RegisterAPIV3Controllers
    \cup RegisterFormAuthenticatedControllers \cup RegisterFormControllers
    \cup RegisterTools
=============================================================================
