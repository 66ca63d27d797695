------------------------ MODULE WhatsmeowEvents_proofs ------------------------
(***************************************************************************)
(* Proofs about the events of a session.                                   *)
(***************************************************************************)
EXTENDS WhatsmeowEvents, TLAPS

(***************************************************************************)
(* Types.                                                                  *)
(***************************************************************************)
Msg == [type : Types, id : {"own", "key", "suffixed", "renamed", "readreceipt"},
        chat : Chats, empty : BOOLEAN, attachment : BOOLEAN, reply : BOOLEAN,
        edited : BOOLEAN, reaction : BOOLEAN, debug : BOOLEAN, history : BOOLEAN,
        left : Nat, extra : Nat]

Task == [n : Nat, run : Runs, m : Msg, in : Seq(Input), during : BOOLEAN]

Filed == [n : Nat, from : {"live", "history", "contact"}, during : BOOLEAN,
          inOrder : BOOLEAN, history : BOOLEAN, dropped : BOOLEAN]

LEMMA BlankType == Blank \in Msg /\ SystemMessage \in Msg
BY DEF Blank, SystemMessage, Msg, Types, Chats

\* A handler fills in what the message is, and leaves alone where it comes from.
LEMMA HandlerKeepsOrigin ==
    ASSUME NEW o \in Msg, NEW in \in Input
    PROVE  LET m == HandleKnowingMessages(o, in)
           IN m \in Msg /\ m.history = o.history /\ m.left = o.left /\ m.extra = o.extra
<1> DEFINE Kept(m) == m \in Msg /\ m.history = o.history /\ m.left = o.left /\ m.extra = o.extra
<1>0. in.empty \in BOOLEAN /\ in.reply \in BOOLEAN
  BY DEF Input
<1>1. Kept(o) /\ Kept(Discarded(o)) /\ Kept(Text(o, in)) /\ Kept([o EXCEPT !.type = "contact"])
        /\ Kept([Text(o, in) EXCEPT !.empty = FALSE])
  BY <1>0 DEF Discarded, Text, Msg, Types
<1>2. ASSUME NEW x \in Msg, Kept(x), NEW type \in Types
      PROVE  Kept(Attached(x, type)) /\ Kept(Captioned(x, type, in)) /\ Kept(Quoting(x, in))
  BY <1>0, <1>2 DEF Attached, Captioned, Quoting, Msg
<1>3. \A type \in {"image", "video", "document", "audio", "location", "contact"} :
         type \in Types
  BY DEF Types
<1>4. /\ Kept(HandleTextMessage(o, in)) /\ Kept(HandleExtendedTextMessage(o, in))
      /\ Kept(HandleButtonsResponseMessage(o, in)) /\ Kept(HandleListMessage(o, in))
      /\ Kept(HandleEditTextMessage(o, in)) /\ Kept(HandleEphemeralMessage(o))
      /\ Kept(HandleTemplateButtonReplyMessage(o, in))
  BY <1>1, <1>2, <1>3 DEF HandleTextMessage, HandleExtendedTextMessage, HandleEphemeralMessage,
     HandleButtonsResponseMessage, HandleListMessage, HandleEditTextMessage,
     HandleTemplateButtonReplyMessage
<1>5. Kept(HandleReactionMessage(o, in)) /\ Kept(HandleProtocolMessage(o, in))
  <2>1. Kept(HandleReactionMessage(o, in))
    BY <1>1 DEF HandleReactionMessage, Msg
  <2>2. Kept(OfKey([o EXCEPT !.type = "revoke"])) /\ Kept([OfKey(o) EXCEPT !.type = "revoke"])
          /\ Kept([OfKey(Text(o, in)) EXCEPT !.edited = TRUE])
          /\ Kept([Discarded(o) EXCEPT !.empty = FALSE])
    <3>1. Kept([Discarded(o) EXCEPT !.empty = FALSE])
      BY <1>1 DEF Msg
    <3>2. Kept(OfKey(o)) /\ Kept(OfKey(Text(o, in)))
      BY <1>1 DEF OfKey, Msg
    <3>3. Kept([OfKey(o) EXCEPT !.type = "revoke"])
      BY <3>2 DEF Msg, Types
    <3>4. Kept([OfKey(Text(o, in)) EXCEPT !.edited = TRUE])
      BY <3>2 DEF Msg
    <3>5. Kept([o EXCEPT !.type = "revoke"])
      BY <1>1 DEF Msg, Types
    <3>6. Kept(OfKey([o EXCEPT !.type = "revoke"]))
      BY <3>5 DEF OfKey, Msg
    <3> QED
      BY <3>1, <3>3, <3>4, <3>6
  <2> QED
    BY <1>1, <2>1, <2>2 DEF HandleProtocolMessage
<1>6. Kept(HandleTemplateMessage(o, in))
  <2>1. Kept(Text(Quoting(o, in), in))
    BY <1>0 DEF Quoting, Text, Msg, Types
  <2> QED
    BY <1>1, <2>1 DEF HandleTemplateMessage, HandleHydratedTemplate
<1>7. /\ Kept(HandleImageMessage(o, in)) /\ Kept(HandleStickerMessage(o, in))
      /\ Kept(HandleVideoMessage(o, in)) /\ Kept(HandleDocumentMessage(o, in))
      /\ Kept(HandleAudioMessage(o, in)) /\ Kept(HandleLocationMessage(o, in))
      /\ Kept(HandleLiveLocationMessage(o, in)) /\ Kept(HandleContactMessage(o, in))
      /\ Kept(HandleContactsArrayMessage(o, in))
  <2>1. \A type \in Types : Kept(Attached(o, type)) /\ Kept(Captioned(o, type, in))
                            /\ Kept(Quoting(Captioned(o, type, in), in))
                            /\ Kept(Quoting(Attached(o, type), in))
    BY <1>1, <1>2
  <2> QED
    BY <1>1, <1>3, <2>1 DEF HandleImageMessage, HandleStickerMessage, HandleVideoMessage,
       HandleDocumentMessage, HandleAudioMessage, HandleLocationMessage,
       HandleLiveLocationMessage, HandleContactMessage, HandleContactsArrayMessage
<1> HIDE DEF Kept
<1>8. Kept(HandleKnowingMessages(o, in))
  BY <1>1, <1>4, <1>5, <1>6, <1>7 DEF HandleKnowingMessages
<1> QED
  BY <1>8 DEF Kept

\* The contacts after the first of an array are live messages, told apart by
\* their number.
LEMMA ExtrasType ==
    ASSUME NEW o \in Msg, NEW in \in Input
    PROVE  /\ \A x \in Extras(o, in) :
                 /\ x \in Msg /\ x.type = "contact" /\ x.history = FALSE
                 /\ x.left = o.left /\ x.extra # 0
           /\ \A x, y \in Extras(o, in) : x.extra = y.extra => x = y
<1>1. CASE Extras(o, in) = {}
  BY <1>1
<1>2. CASE Extras(o, in) = ExtraContacts(o, in)
  <2> DEFINE extra(k) == [Blank EXCEPT !.type = "contact", !.chat = o.chat, !.empty = in.empty,
                                       !.attachment = TRUE, !.id = "suffixed", !.left = o.left,
                                       !.extra = k]
  <2>1. \A x \in Extras(o, in) : \E k \in 2..in.contacts : x = extra(k)
    BY <1>2 DEF ExtraContacts
  <2>2. \A k \in 2..in.contacts :
           /\ extra(k) \in Msg /\ extra(k).type = "contact" /\ extra(k).history = FALSE
           /\ extra(k).left = o.left /\ extra(k).extra = k /\ k # 0
    <3>1. o.chat \in Chats /\ o.left \in Nat /\ in.empty \in BOOLEAN /\ in.contacts \in Nat
      BY DEF Msg, Input
    <3>2. TAKE k \in 2..in.contacts
    <3>3. k \in Nat /\ k # 0
      BY <3>1
    <3>4. /\ extra(k).type = "contact" /\ extra(k).history = FALSE
          /\ extra(k).left = o.left /\ extra(k).extra = k
      BY DEF Blank
    <3>5. extra(k) \in Msg
      <4>1. "contact" \in Types /\ TRUE \in BOOLEAN
        BY DEF Types
      <4> QED
        BY <3>1, <3>3, <4>1, BlankType DEF Msg
    <3> QED
      BY <3>3, <3>4, <3>5
  <2>3. \A x \in Extras(o, in) : x.extra \in 2..in.contacts /\ x = extra(x.extra)
    <3> HIDE DEF extra
    <3> QED
      BY <2>1, <2>2
  <2> HIDE DEF extra
  <2>4. \A x \in Extras(o, in) :
           /\ x \in Msg /\ x.type = "contact" /\ x.history = FALSE
           /\ x.left = o.left /\ x.extra # 0
    BY <2>2, <2>3
  <2>5. \A x, y \in Extras(o, in) : x.extra = y.extra => x = y
    BY <2>3
  <2> QED
    BY <2>4, <2>5
<1> QED
  BY <1>1, <1>2 DEF Extras

(***************************************************************************)
(* The invariant.  Tasks that mark messages as read take no part in it.    *)
(***************************************************************************)
Work == {t \in tasks : t.run # "mark"}

\* What a dispatching handler was given has these fields and no other.
IsCopy(g) == g = [n |-> g.n, extra |-> g.extra, type |-> g.type, debug |-> g.debug,
                  queue |-> g.queue, by |-> g.by, left |-> g.left]

TypeInv ==
    /\ link \in {"down", "live", "out"} \cup Syncing
    /\ sent \in Nat /\ applied \in 0..sent
    /\ started \in BOOLEAN /\ completed \in BOOLEAN /\ overtaken \in BOOLEAN
    /\ tasks \subseteq Task /\ \A t \in tasks : t.n \in 1..sent
    /\ \A t \in Work : t.run = "message" => t.in # <<>>
    /\ filed \subseteq Filed /\ \A f \in filed : f.n \in 1..sent
    /\ \A g \in got : g.n \in 1..sent /\ g.left \in Nat /\ IsCopy(g)
    /\ scene \in DOMAIN Scenes

\* Logged out, and the goroutine of OnConnected is not to come.
LogoutInv ==
    token /\ ~late => ~verified /\ \A t \in Work : t.run # "verify"

\* The dispatching handler is never registered twice.
RegistryInv == aeh \in {0, 1}

\* The goroutines that are to set the flags, and what they set them to.
FlagTasks == {t \in Work : t.run \in {"preview", "completed"}}
Sets(u) == u.run = "preview"

(* What came in as the kth event, while the server was syncing or not, is  *)
(* rightly taken for history or not if the goroutines before it that have  *)
(* still to set the flags, the last of them if there is one, do so.        *)
Foreseen(k, syncing) ==
    ~overtaken /\ applied < k =>
        LET before == {u \in FlagTasks : applied < u.n /\ u.n < k}
        IN /\ before = {} => (started /\ ~completed <=> syncing)
           /\ \A u \in before :
                 (\A w \in before : w.n <= u.n) => (Sets(u) <=> syncing)

FlagInv ==
    /\ \A u \in FlagTasks : u.n # applied
    /\ \A u, w \in FlagTasks : u.n = w.n => u = w
    /\ \A t \in Work : t.run = "message" => Foreseen(t.n, t.during)
    /\ Up => Foreseen(sent + 1, link \in Syncing)

FiledInv ==
    \A f \in filed : /\ f.from = "history" => f.history
                     /\ f.from = "live" /\ f.inOrder => f.history = f.during

\* What a goroutine, or what was delivered, has of event k.
Single == {"message", "preview", "completed", "call", "receipt"}
Deliveries(k) == {t \in Work : t.n = k /\ t.run = "deliver"}
FiledOf(k) == {f \in filed : f.n = k}

\* the same message: of one event, one of a batch and one of an array
Alike(x, y) == x.left = y.left /\ x.extra = y.extra

SingleInv ==
    \A t \in Work : t.run \in Single =>
        /\ \A u \in Work : u.n = t.n => u = t
        /\ FiledOf(t.n) = {} /\ Copies(t.n) = {}
        /\ t.run = "call" => ~t.m.history

\* the next messages of a batch come after those that were delivered
BatchInv ==
    \A t \in Work : t.run = "history" =>
        /\ \A u \in Work : u.n = t.n => u = t \/ u.run = "deliver"
        /\ \A f \in FiledOf(t.n) : f.from = "history" /\ f.history
        /\ \A u \in Deliveries(t.n) : /\ u.m.left > Len(t.in)
                                      /\ u.m.extra = 0 => u.m.history
        /\ \A g \in Copies(t.n) : /\ g.left > Len(t.in)
                                  /\ g.extra = 0 => g.queue = "history"

VerifyInv == \A t \in Work : t.run = "verify" => FiledOf(t.n) = {}

DeliverInv ==
    \A t \in Work : t.run = "deliver" =>
        /\ \A f \in FiledOf(t.n) : t.m.extra = 0 =>
               t.m.history = f.history /\ (f.from = "live" => ~f.dropped)
        /\ t.m.history => t.m.type # "unhandled" /\ \E f \in FiledOf(t.n) : f.history
        /\ \A u \in Deliveries(t.n) : Alike(u.m, t.m) => u = t
        /\ \A g \in Copies(t.n) : ~Alike(g, t.m)

GotInv ==
    /\ \A g \in got : \A f \in FiledOf(g.n) : g.extra = 0 =>
           (g.queue = "history" <=> f.history) /\ (f.from = "live" => ~f.dropped)
    /\ \A g \in got : g.queue = "history" =>
           g.type # "unhandled" /\ \E f \in FiledOf(g.n) : f.history
    /\ \A g, h \in got : g.n = h.n /\ Alike(g, h) => g = h

EventInv ==
    SingleInv /\ BatchInv /\ VerifyInv /\ DeliverInv /\ GotInv

Inv == TypeInv /\ LogoutInv /\ RegistryInv /\ FlagInv /\ FiledInv /\ EventInv

LEMMA InitInv == Init => Inv
<1> SUFFICES ASSUME Init PROVE Inv
  OBVIOUS
<1>1. TypeInv /\ LogoutInv /\ RegistryInv /\ FiledInv
  <2>1. sent \in Nat /\ applied \in 0..sent
    BY DEF Init
  <2>2. /\ started \in BOOLEAN /\ completed \in BOOLEAN /\ overtaken \in BOOLEAN
        /\ tasks = {} /\ filed = {} /\ got = {} /\ link = "down" /\ scene \in DOMAIN Scenes
    BY DEF Init
  <2>3. TypeInv
    BY <2>1, <2>2 DEF TypeInv, Work
  <2>4. LogoutInv
    BY DEF Init, LogoutInv
  <2>5. RegistryInv /\ FiledInv
    BY DEF Init, RegistryInv, FiledInv
  <2> QED
    BY <2>3, <2>4, <2>5
<1>2. Work = {} /\ got = {} /\ ~Up
  BY DEF Init, Work, Up, Syncing
<1>3. FlagInv
  BY <1>2 DEF FlagInv, FlagTasks
<1>4. EventInv
  BY <1>2 DEF EventInv, SingleInv, BatchInv, VerifyInv, DeliverInv, GotInv
<1> QED
  BY <1>1, <1>3, <1>4 DEF Inv

(***************************************************************************)
(* What an event brings when it comes in.                                  *)
(***************************************************************************)
Brings(N) ==
    /\ sent' = sent + 1
    /\ tasks' \subseteq Task /\ \A t \in tasks' : t.n \in 1..sent + 1
    /\ Work' = Work \cup N
    /\ N \subseteq Task /\ \A t \in N : t.n = sent + 1 /\ t.during = (link \in Syncing)
    /\ \A t \in N : t.run = "message" => t.in # <<>>
    /\ UNCHANGED <<got, registry, scene>>

\* a goroutine on its own, or messages for the bot, that of a contact filed
BringsOne(N) ==
    /\ \E t \in Task : N = {t} /\ t.run \in Single \cup {"history"} /\ ~t.m.history
    /\ UNCHANGED filed

BringsMessages(N) ==
    /\ \A t \in N : t.run \in {"verify", "deliver"} /\ ~t.m.history
    /\ \A t, u \in N : t.run = u.run => t = u
    /\ UNCHANGED filed

BringsContact(N) ==
    \E t \in Task, f \in Filed :
        /\ N = {t} /\ t.run = "deliver" /\ t.m.type = "contact"
        /\ filed' = filed \cup {f} /\ f.n = sent + 1
        /\ f.from = "contact" /\ f.history = t.m.history

\* What it means for the offline sync.
BesidesSync(N) ==
    /\ UNCHANGED flags
    /\ \A t \in N : t.run \notin {"preview", "completed"} /\ (t.run = "message" => Up)
    /\ Up' => Up /\ (link' \in Syncing <=> link \in Syncing)

BeginsSync(N) ==
    /\ started' = TRUE /\ completed' = FALSE /\ applied' = sent + 1
    /\ UNCHANGED overtaken
    /\ link' = "connected"
    /\ \A t \in N : t.run \notin {"preview", "completed", "message"}

MovesSync(N) ==
    /\ UNCHANGED flags
    /\ \E t \in Task : /\ N = {t} /\ t.run \in {"preview", "completed"}
                       /\ Sets(t) <=> link' \in Syncing

Arrives(N) ==
    /\ Brings(N)
    /\ link' \in {"down", "live", "out"} \cup Syncing
    /\ BringsOne(N) \/ BringsMessages(N) \/ BringsContact(N)
    /\ BesidesSync(N) \/ BeginsSync(N) \/ MovesSync(N)
    /\ \/ ~token' /\ UNCHANGED <<bot, token>>
       \/ verified' = FALSE /\ late' = (\E t \in tasks : t.run = "verify")
            /\ \A t \in N : t.run # "verify"

\* Goroutines of event n are tasks.
Goes(t, run, m, batch) ==
    /\ t \in Task /\ t.n = sent + 1 /\ t.run = run /\ t.m = m /\ t.in = batch
    /\ t.during = (link \in Syncing)

LEMMA GoType ==
    ASSUME TypeInv, NEW run \in Runs, NEW m \in Msg, NEW batch \in Seq(Input)
    PROVE  Goes(Go(n, run, m, batch), run, m, batch)
BY DEF Go, Task, n, TypeInv, Goes

\* The goroutine that gives the bot a message.
Delivery(t, m) == [t EXCEPT !.run = "deliver", !.m = m, !.in = <<>>]
Delivers(d, t, m) ==
    d \in Task /\ d.n = t.n /\ d.run = "deliver" /\ d.m = m /\ d.during = t.during

\* Besides it, there may be one that marks the message as read.
LEMMA FollowingType ==
    ASSUME NEW t \in Task, NEW m \in Msg
    PROVE  /\ Delivery(t, m) \in Following(t, m) /\ Delivers(Delivery(t, m), t, m)
           /\ \A u \in Following(t, m) :
                 u = Delivery(t, m) \/ (u \in Task /\ u.run = "mark" /\ u.n = t.n)
<1> DEFINE mark == [t EXCEPT !.run = "mark", !.m = m, !.in = <<>>]
<1>1. <<>> \in Seq(Input) /\ "deliver" \in Runs /\ "mark" \in Runs
  BY DEF Runs
<1>2. Delivers(Delivery(t, m), t, m) /\ mark \in Task /\ mark.run = "mark" /\ mark.n = t.n
  BY <1>1 DEF Delivers, Delivery, Task
<1>3. Following(t, m) = {Delivery(t, m)} \/ Following(t, m) = {Delivery(t, m), mark}
  BY DEF Following, Delivery
<1> HIDE DEF mark
<1> QED
  BY <1>2, <1>3

\* Follow gives the bot a message.
LEMMA FollowWork ==
    ASSUME TypeInv, NEW m \in Msg, Follow(m)
    PROVE  \E d \in Task :
              /\ tasks' \subseteq Task /\ \A t \in tasks' : t.n \in 1..sent + 1
              /\ Work' = Work \cup {d}
              /\ d.n = sent + 1 /\ d.run = "deliver" /\ d.m = m
              /\ d.during = (link \in Syncing)
<1> DEFINE t == Go(n, "deliver", m, <<>>)
<1>1. t \in Task /\ t.n = sent + 1 /\ t.during = (link \in Syncing)
  <2>1. <<>> \in Seq(Input) /\ "deliver" \in Runs
    BY DEF Runs
  <2>2. Goes(t, "deliver", m, <<>>)
    BY <2>1, GoType
  <2> QED
    BY <2>2 DEF Goes
<1> HIDE DEF t
<1>2. PICK d \in Following(t, m) :
         /\ Delivers(d, t, m)
         /\ \A u \in Following(t, m) : u = d \/ (u \in Task /\ u.run = "mark" /\ u.n = t.n)
  BY <1>1, FollowingType
<1>3. tasks' = tasks \cup Following(t, m)
  BY DEF Follow, Start, t
<1> QED
  BY <1>1, <1>2, <1>3 DEF Delivers, Work, TypeInv

\* Start starts one goroutine.
LEMMA StartWork ==
    ASSUME TypeInv, NEW t \in Task, Start({t}), t.n = sent + 1, t.run # "mark"
    PROVE  /\ tasks' \subseteq Task /\ \A u \in tasks' : u.n \in 1..sent + 1
           /\ Work' = Work \cup {t}
BY DEF Start, TypeInv, Work

\* An event that gives the bot one message, or starts one goroutine, and leaves
\* the offline sync alone.
LEMMA PlainEventArrives ==
    ASSUME TypeInv, Heard, NoFlags, Up,
           UNCHANGED link \/ link' = "down",
           \/ UNCHANGED tasks
           \/ \E m \in Msg : Follow(m) /\ ~m.history
           \/ \E t \in Task : Start({t}) /\ t.n = sent + 1 /\ t.during = (link \in Syncing)
                 /\ t.run \in {"message", "history", "call", "receipt"} /\ ~t.m.history
                 /\ (t.run = "message" => t.in # <<>>)
    PROVE  \E N : Arrives(N)
<1>1. sent' = sent + 1 /\ UNCHANGED <<got, registry, scene, filed>>
        /\ (~token' /\ UNCHANGED <<bot, token>>)
  BY DEF Heard, Comes, NoFlags, n, effects
<1>2. link' \in {"down", "live", "out"} \cup Syncing
  BY DEF TypeInv
<1>3. Up' => Up /\ (link' \in Syncing <=> link \in Syncing)
  BY DEF Up, Syncing
<1>4. CASE UNCHANGED tasks
  <2>1. Brings({})
    BY <1>1, <1>4 DEF Brings, TypeInv, Work
  <2>2. BringsMessages({}) /\ BesidesSync({})
    BY <1>1, <1>3 DEF BringsMessages, BesidesSync, NoFlags
  <2> QED
    BY <1>1, <1>2, <2>1, <2>2 DEF Arrives
<1>5. ASSUME NEW m \in Msg, Follow(m), ~m.history
      PROVE  \E N : Arrives(N)
  <2>1. PICK d \in Task :
           /\ tasks' \subseteq Task /\ \A t \in tasks' : t.n \in 1..sent + 1
           /\ Work' = Work \cup {d}
           /\ d.n = sent + 1 /\ d.run = "deliver" /\ d.m = m
           /\ d.during = (link \in Syncing)
    BY <1>5, FollowWork
  <2>2. Brings({d})
    BY <1>1, <2>1 DEF Brings
  <2>3. BringsMessages({d}) /\ BesidesSync({d})
    BY <1>1, <1>3, <1>5, <2>1 DEF BringsMessages, BesidesSync, NoFlags
  <2> QED
    BY <1>1, <1>2, <2>2, <2>3 DEF Arrives
<1>6. ASSUME NEW t \in Task, Start({t}), t.n = sent + 1, t.during = (link \in Syncing),
             t.run \in {"message", "history", "call", "receipt"}, ~t.m.history,
             t.run = "message" => t.in # <<>>
      PROVE  \E N : Arrives(N)
  <2>1. Brings({t})
    BY <1>1, <1>6, StartWork DEF Brings
  <2>2. BringsOne({t}) /\ BesidesSync({t})
    BY <1>1, <1>3, <1>6 DEF BringsOne, BesidesSync, NoFlags, Single
  <2> QED
    BY <1>1, <1>2, <2>1, <2>2 DEF Arrives
<1> QED
  BY <1>4, <1>5, <1>6

\* The server of WhatsApp begins the offline sync, or moves on in it.
LEMMA SyncEventArrives ==
    ASSUME TypeInv, Connected \/ OfflineSyncPreview \/ OfflineSyncCompleted
    PROVE  \E N : Arrives(N)
<1>1. sent' = sent + 1 /\ UNCHANGED <<got, registry, scene, filed>>
        /\ (~token' /\ UNCHANGED <<bot, token>>)
  BY DEF Connected, OfflineSyncPreview, OfflineSyncCompleted, Heard, Comes, NoFlags, n, effects
<1>2. link' \in {"down", "live", "out"} \cup Syncing
  BY DEF Connected, OfflineSyncPreview, OfflineSyncCompleted, Syncing
<1>3. /\ <<>> \in Seq(Input) /\ "verify" \in Runs /\ "deliver" \in Runs
      /\ \A run \in {"preview", "completed"} : run \in Runs
      /\ ~Blank.history /\ ~SystemMessage.history /\ Blank \in Msg /\ SystemMessage \in Msg
  BY BlankType DEF Runs, Blank, SystemMessage
<1>4. ASSUME NEW run \in {"preview", "completed"}, Start(Goroutines({run})), UNCHANGED flags,
             run = "preview" <=> link' \in Syncing
      PROVE  \E N : Arrives(N)
  <2> DEFINE t == Go(n, run, Blank, <<>>)
  <2>1. t \in Task /\ t.n = sent + 1 /\ t.run = run /\ t.m = Blank
          /\ t.during = (link \in Syncing)
    <3>1. Goes(t, run, Blank, <<>>)
      BY <1>3, GoType
    <3> QED
      BY <3>1 DEF Goes
  <2>2. Start({t})
    BY <1>4 DEF Goroutines
  <2> HIDE DEF t
  <2>3. Brings({t})
    BY <1>1, <2>1, <2>2, StartWork DEF Brings
  <2>4. BringsOne({t}) /\ MovesSync({t})
    BY <1>1, <1>3, <1>4, <2>1 DEF BringsOne, MovesSync, Single, Sets
  <2> QED
    BY <1>1, <1>2, <2>3, <2>4 DEF Arrives
<1>5. CASE OfflineSyncPreview \/ OfflineSyncCompleted
  BY <1>4, <1>5 DEF OfflineSyncPreview, OfflineSyncCompleted, NoFlags, Syncing
<1>6. CASE Connected
  <2> DEFINE v == Go(n, "verify", Blank, <<>>)
             d == SendDispatching(Go(n, "deliver", Blank, <<>>))
  <2>1. v \in Task /\ v.n = sent + 1 /\ v.run = "verify" /\ v.m = Blank
          /\ v.during = (link \in Syncing)
    <3>1. Goes(v, "verify", Blank, <<>>)
      BY <1>3, GoType
    <3> QED
      BY <3>1 DEF Goes
  <2>2. d \in Task /\ d.n = sent + 1 /\ d.run = "deliver" /\ d.m = SystemMessage
          /\ d.during = (link \in Syncing)
    <3>1. Goes(Go(n, "deliver", Blank, <<>>), "deliver", Blank, <<>>)
      BY <1>3, GoType
    <3> QED
      BY <1>3, <3>1 DEF Goes, SendDispatching, Task
  <2>3. tasks' = tasks \cup {v, d}
    BY <1>6 DEF Connected, Start, Goroutines
  <2> HIDE DEF v, d
  <2>4. Brings({v, d})
    BY <1>1, <2>1, <2>2, <2>3 DEF Brings, Work, TypeInv
  <2>5. BringsMessages({v, d}) /\ BeginsSync({v, d})
    BY <1>1, <1>3, <1>6, <2>1, <2>2 DEF BringsMessages, BeginsSync, Connected, n
  <2> QED
    BY <1>1, <1>2, <2>4, <2>5 DEF Arrives
<1> QED
  BY <1>5, <1>6

\* The other events, but for the log-out and the contacts.
LEMMA OtherEventArrives ==
    ASSUME TypeInv,
           \/ Disconnected \/ MessageArrives \/ OtherArrives \/ CallArrives
           \/ HistorySyncArrives \/ ReadReceiptArrives \/ JoinedGroup \/ OnQREvent
           \/ OnPairSuccessEvent \/ \E type \in {"view_once", "other"} : UndecryptableMessage(type)
    PROVE  \E N : Arrives(N)
<1>1. Heard /\ Up /\ NoFlags /\ (UNCHANGED link \/ link' = "down")
  BY DEF Disconnected, MessageArrives, OtherArrives, CallArrives, HistorySyncArrives,
         ReadReceiptArrives, JoinedGroup, OnQREvent, OnPairSuccessEvent, SystemArrives,
         UndecryptableMessage, NoFlags
<1>2. /\ <<>> \in Seq(Input) /\ Blank \in Msg /\ SystemMessage \in Msg /\ ~Blank.history
      /\ ~SystemMessage.history
      /\ \A run \in {"message", "history", "call", "receipt"} : run \in Runs
  BY BlankType DEF Runs, Blank, SystemMessage
<1>3. ASSUME NEW run \in {"message", "history", "call", "receipt"}, NEW batch \in Seq(Input),
             Start({Go(n, run, Blank, batch)}), run = "message" => batch # <<>>
      PROVE  \E t \in Task : /\ Start({t}) /\ t.n = sent + 1 /\ t.during = (link \in Syncing)
                /\ t.run \in {"message", "history", "call", "receipt"} /\ ~t.m.history
                /\ (t.run = "message" => t.in # <<>>)
  <2>1. Goes(Go(n, run, Blank, batch), run, Blank, batch)
    BY <1>2, GoType
  <2> QED
    BY <1>2, <1>3, <2>1 DEF Goes
<1> DEFINE Messages == \E m \in Msg : Follow(m) /\ ~m.history
           Tasks == \E t \in Task : Start({t}) /\ t.n = sent + 1 /\ t.during = (link \in Syncing)
                 /\ t.run \in {"message", "history", "call", "receipt"} /\ ~t.m.history
                 /\ (t.run = "message" => t.in # <<>>)
<1>5. CASE MessageArrives \/ HistorySyncArrives
  <2>1. MessageArrives => \E in \in Input : Start({Go(n, "message", Blank, <<in>>)})
    <3>1. MessageArrives => n \in 1..here.events /\ here.inputs[n] \subseteq Input
      <4>1. scene \in DOMAIN Scenes /\ sent \in Nat /\ (MessageArrives => sent < here.events)
        BY DEF TypeInv, MessageArrives, Heard, Comes
      <4>2. here.events \in Nat /\ \A k \in 1..here.events : here.inputs[k] \subseteq Input
        BY <4>1, ScenesAssumption DEF here
      <4> QED
        BY <4>1, <4>2 DEF n
    <3> QED
      BY <3>1 DEF MessageArrives
  <2>2. HistorySyncArrives =>
           \/ UNCHANGED tasks
           \/ \E batch \in Seq(Input) : Start({Go(n, "history", Blank, batch)})
    <3>1. here.batches \subseteq Seq(Input)
      BY ScenesAssumption DEF here, TypeInv
    <3> QED
      BY <3>1 DEF HistorySyncArrives
  <2>3. \A in \in Input : <<in>> \in Seq(Input) /\ <<in>> # <<>>
    OBVIOUS
  <2>4. UNCHANGED tasks \/ Tasks
    BY <1>3, <1>5, <2>1, <2>2, <2>3
  <2> QED
    BY <1>1, <2>4, PlainEventArrives
<1>6. CASE CallArrives \/ ReadReceiptArrives
  <2>1. UNCHANGED tasks \/ \E run \in {"call", "receipt"} : Start({Go(n, run, Blank, <<>>)})
    BY <1>6 DEF CallArrives, ReadReceiptArrives, Goroutines
  <2>2. UNCHANGED tasks \/ Tasks
    BY <1>2, <1>3, <2>1
  <2> QED
    BY <1>1, <2>2, PlainEventArrives
<1>7. CASE \/ OtherArrives \/ JoinedGroup \/ OnQREvent \/ OnPairSuccessEvent
           \/ \E type \in {"view_once", "other"} : UndecryptableMessage(type)
  <2> DEFINE
        viewOnce == [Blank EXCEPT !.type = "view_once"]
        unhandled == [SystemMessage EXCEPT !.type = "unhandled", !.debug = TRUE]
        group == [Blank EXCEPT !.type = "group", !.chat = "group", !.empty = FALSE]
  <2>1. \A m \in {viewOnce, unhandled, group} : m \in Msg /\ ~m.history
    <3>1. /\ \A type \in {"view_once", "unhandled", "group"} : type \in Types
          /\ "group" \in Chats
      BY DEF Types, Chats
    <3>2. viewOnce \in Msg /\ ~viewOnce.history
      BY <1>2, <3>1 DEF Msg
    <3>3. unhandled \in Msg /\ ~unhandled.history
      BY <1>2, <3>1 DEF Msg
    <3>4. group \in Msg /\ ~group.history
      BY <1>2, <3>1 DEF Msg
    <3> QED
      BY <3>2, <3>3, <3>4
  <2>2. \/ UNCHANGED tasks
        \/ \E m \in {viewOnce, unhandled, group, SystemMessage} : Follow(m)
    BY <1>7 DEF OtherArrives, JoinedGroup, OnQREvent, OnPairSuccessEvent, SystemArrives,
                UndecryptableMessage, DispatchUnhandledEvent
  <2> HIDE DEF viewOnce, unhandled, group
  <2>3. UNCHANGED tasks \/ Messages
    BY <1>2, <2>1, <2>2
  <2> QED
    BY <1>1, <2>3, PlainEventArrives
<1>8. CASE Disconnected
  <2>1. UNCHANGED tasks
    BY <1>8 DEF Disconnected
  <2> QED
    BY <1>1, <2>1, PlainEventArrives
<1> QED
  BY <1>5, <1>6, <1>7, <1>8

\* A contact is followed on and filed at once.
LEMMA ContactArrives ==
    ASSUME TypeInv, NEW full \in BOOLEAN, NEW action \in BOOLEAN, OnEventContact(full, action)
    PROVE  \E N : Arrives(N)
<1> DEFINE m == [Blank EXCEPT !.type = "contact", !.history = full,
                              !.attachment = TRUE, !.edited = TRUE]
           t == Go(n, "contact", m, <<>>)
           f == [n |-> t.n, from |-> "contact", during |-> t.during,
                 inOrder |-> InOrder(t), history |-> m.history,
                 dropped |-> m.type = "unhandled" /\ m.history]
<1>1. sent' = sent + 1 /\ UNCHANGED <<flags, got, registry, scene, link>>
        /\ (~token' /\ UNCHANGED <<bot, token>>)
  BY DEF OnEventContact, Comes, n, effects
<1>2. link' \in {"down", "live", "out"} \cup Syncing
  BY <1>1 DEF TypeInv
<1>3. Up' => Up /\ (link' \in Syncing <=> link \in Syncing)
  BY <1>1 DEF Up, Syncing
<1>4. m \in Msg /\ m.type = "contact" /\ m.history = full
  <2>1. Blank \in Msg /\ "contact" \in Types
    BY BlankType DEF Types
  <2> QED
    BY <2>1 DEF Msg
<1>5. t.n = sent + 1 /\ t.during = (link \in Syncing)
  BY DEF Go, n
<1>6. f \in Filed /\ f.n = sent + 1 /\ f.from = "contact" /\ f.history = full
  <2>1. InOrder(t) \in BOOLEAN
    BY DEF InOrder
  <2> HIDE DEF m, t
  <2> QED
    BY <1>4, <1>5, <2>1 DEF Filed, TypeInv
<1>7. CASE action
  <2>1. Follow(m) /\ filed' = filed \cup {f}
    BY <1>7 DEF OnEventContact, File
  <2> HIDE DEF m, t, f
  <2>2. PICK d \in Task :
           /\ tasks' \subseteq Task /\ \A u \in tasks' : u.n \in 1..sent + 1
           /\ Work' = Work \cup {d}
           /\ d.n = sent + 1 /\ d.run = "deliver" /\ d.m = m
           /\ d.during = (link \in Syncing)
    BY <1>4, <2>1, FollowWork
  <2>3. Brings({d})
    BY <1>1, <2>2 DEF Brings
  <2>4. BringsContact({d})
    BY <1>4, <1>6, <2>1, <2>2 DEF BringsContact
  <2>5. BesidesSync({d})
    BY <1>1, <1>3, <2>2 DEF BesidesSync
  <2> QED
    BY <1>1, <1>2, <2>3, <2>4, <2>5 DEF Arrives
<1>8. CASE ~action
  <2>1. UNCHANGED <<tasks, filed>>
    BY <1>8 DEF OnEventContact
  <2>2. Brings({})
    BY <1>1, <2>1 DEF Brings, TypeInv, Work
  <2>3. BringsMessages({}) /\ BesidesSync({})
    BY <1>1, <1>3, <2>1 DEF BringsMessages, BesidesSync
  <2> QED
    BY <1>1, <1>2, <2>2, <2>3 DEF Arrives
<1> QED
  BY <1>7, <1>8

LEMMA LogOutArrives ==
    ASSUME TypeInv, OnLoggedOutEvent
    PROVE  \E N : Arrives(N)
<1>1. sent' = sent + 1 /\ UNCHANGED <<flags, got, registry, scene, filed>> /\ link' = "out"
        /\ verified' = FALSE /\ late' = (\E t \in tasks : t.run = "verify")
  BY DEF OnLoggedOutEvent, Comes, n, effects
<1>2. link' \in {"down", "live", "out"} \cup Syncing /\ ~Up'
  BY <1>1 DEF Up, Syncing
<1>3. SystemMessage \in Msg /\ ~SystemMessage.history
  BY BlankType DEF SystemMessage, Blank
<1>4. Follow(SystemMessage)
  BY DEF OnLoggedOutEvent
<1>5. PICK d \in Task :
         /\ tasks' \subseteq Task /\ \A u \in tasks' : u.n \in 1..sent + 1
         /\ Work' = Work \cup {d}
         /\ d.n = sent + 1 /\ d.run = "deliver" /\ d.m = SystemMessage
         /\ d.during = (link \in Syncing)
  BY <1>3, <1>4, FollowWork
<1>6. Brings({d})
  BY <1>1, <1>5 DEF Brings
<1>7. BringsMessages({d}) /\ BesidesSync({d})
  BY <1>1, <1>2, <1>3, <1>5 DEF BringsMessages, BesidesSync
<1>8. \A t \in {d} : t.run # "verify"
  BY <1>5
<1> QED
  BY <1>1, <1>2, <1>6, <1>7, <1>8 DEF Arrives

LEMMA ArrivalArrives ==
    ASSUME TypeInv, Arrival
    PROVE  \E N : Arrives(N)
BY SyncEventArrives, OtherEventArrives, ContactArrives, LogOutArrives DEF Arrival

(***************************************************************************)
(* What comes in preserves the invariant: it is numbered as no event is.   *)
(***************************************************************************)
LEMMA ArrivalKeepsTypes ==
    ASSUME Inv, NEW N, Arrives(N)
    PROVE  TypeInv' /\ LogoutInv' /\ RegistryInv' /\ FiledInv'
<1>1. TypeInv'
  <2>1. /\ sent' \in Nat /\ applied' \in 0..sent'
        /\ started' \in BOOLEAN /\ completed' \in BOOLEAN /\ overtaken' \in BOOLEAN
    <3>1. UNCHANGED flags \/ BeginsSync(N)
      BY DEF Arrives, BesidesSync, MovesSync
    <3>2. sent \in Nat /\ applied \in 0..sent /\ sent' = sent + 1
      BY DEF Inv, TypeInv, Arrives, Brings
    <3>3. sent' \in Nat /\ applied' \in 0..sent'
      BY <3>1, <3>2 DEF BeginsSync, flags
    <3>4. started' \in BOOLEAN /\ completed' \in BOOLEAN /\ overtaken' \in BOOLEAN
      BY <3>1 DEF Inv, TypeInv, BeginsSync, flags
    <3> QED
      BY <3>3, <3>4
  <2>2. /\ tasks' \subseteq Task /\ \A t \in tasks' : t.n \in 1..sent'
        /\ \A t \in Work' : t.run = "message" => t.in # <<>>
    BY DEF Inv, TypeInv, Arrives, Brings
  <2>3. filed' \subseteq Filed /\ \A f \in filed' : f.n \in 1..sent'
    BY DEF Inv, TypeInv, Arrives, Brings, BringsOne, BringsMessages, BringsContact
  <2>4. \A g \in got' : g.n \in 1..sent' /\ g.left \in Nat /\ IsCopy(g)
    BY DEF Inv, TypeInv, Arrives, Brings
  <2>5. (link \in {"down", "live", "out"} \cup Syncing)'
    BY DEF Arrives, Syncing
  <2>6. scene' \in DOMAIN Scenes
    BY DEF Inv, TypeInv, Arrives, Brings
  <2> QED
    BY <2>1, <2>2, <2>3, <2>4, <2>5, <2>6 DEF TypeInv
<1>2. LogoutInv'
  BY DEF Inv, LogoutInv, Arrives, Brings, Work
<1>3. RegistryInv'
  BY DEF Inv, RegistryInv, Arrives, Brings, registry
<1>4. FiledInv'
  BY DEF Inv, FiledInv, Arrives, BringsOne, BringsMessages, BringsContact
<1> QED
  BY <1>1, <1>2, <1>3, <1>4

LEMMA ArrivalKeepsFlags ==
    ASSUME Inv, NEW N, Arrives(N)
    PROVE  FlagInv'
<1>1. /\ sent \in Nat /\ applied \in 0..sent /\ \A t \in Work : t.n \in 1..sent
      /\ \A u \in FlagTasks : u.n \in 1..sent /\ u \in Work
  BY DEF Inv, TypeInv, Work, FlagTasks
<1>2. /\ sent' = sent + 1 /\ Work' = Work \cup N
      /\ \A t \in N : t.n = sent + 1 /\ t.during = (link \in Syncing)
  BY DEF Arrives, Brings
<1>3. CASE BesidesSync(N)
  <2>1. FlagTasks' = FlagTasks
    BY <1>2, <1>3 DEF FlagTasks, BesidesSync
  <2>2. UNCHANGED <<started, completed, applied, overtaken>>
    BY <1>3 DEF BesidesSync, flags
  <2>3. \A k, s : Foreseen(k, s)' <=> Foreseen(k, s)
    BY <2>1, <2>2 DEF Foreseen, Sets
  <2>4. \A t \in Work' : t.run = "message" => Foreseen(t.n, t.during)'
    BY <1>2, <1>3, <2>3 DEF Inv, FlagInv, BesidesSync
  <2>5. Up' => Foreseen(sent + 1, link \in Syncing)'
    <3>1. Up' => Foreseen(sent + 1, link \in Syncing)
      BY <1>3 DEF Inv, FlagInv, BesidesSync
    <3>2. {u \in FlagTasks : applied < u.n /\ u.n < sent + 1}
             = {u \in FlagTasks : applied < u.n /\ u.n < sent' + 1}
      BY <1>1, <1>2
    <3>3. applied < sent + 1
      BY <1>1
    <3>4. ASSUME Up' PROVE Foreseen(sent + 1, link \in Syncing)'
      <4>1. link' \in Syncing <=> link \in Syncing
        BY <1>3, <3>4 DEF BesidesSync
      <4> QED
        BY <2>1, <2>2, <3>1, <3>2, <3>3, <3>4, <4>1 DEF Foreseen, Sets, Syncing
    <3> QED
      BY <3>4
  <2> QED
    BY <2>1, <2>2, <2>4, <2>5 DEF Inv, FlagInv
<1>4. CASE BeginsSync(N)
  <2>1. FlagTasks' = FlagTasks
    BY <1>2, <1>4 DEF FlagTasks, BeginsSync
  <2>2. started' /\ ~completed' /\ applied' = sent + 1 /\ link' \in Syncing
    BY <1>4 DEF BeginsSync, Syncing
  <2>3. \A t \in Work' : t.run = "message" => Foreseen(t.n, t.during)'
    BY <1>1, <1>2, <1>4, <2>2 DEF Foreseen, BeginsSync
  <2>4. Foreseen(sent + 1, link \in Syncing)'
    BY <1>1, <1>2, <2>1, <2>2 DEF Foreseen
  <2>5. \A u \in FlagTasks' : u.n # applied'
    BY <1>1, <2>1, <2>2
  <2> QED
    BY <2>1, <2>3, <2>4, <2>5 DEF Inv, FlagInv
<1>5. CASE MovesSync(N)
  <2>1. UNCHANGED <<started, completed, applied, overtaken>>
    BY <1>5 DEF MovesSync, flags
  <2>2. PICK t \in Task : /\ N = {t} /\ t.run \in {"preview", "completed"}
                          /\ Sets(t) <=> link' \in Syncing
    BY <1>5 DEF MovesSync
  <2>3. FlagTasks' = FlagTasks \cup {t} /\ t.n = sent + 1
    BY <1>2, <2>2 DEF FlagTasks
  <2>4. \A k \in 1..sent : \A s : Foreseen(k, s)' <=> Foreseen(k, s)
    <3> SUFFICES ASSUME NEW k \in 1..sent, NEW s PROVE Foreseen(k, s)' <=> Foreseen(k, s)
      OBVIOUS
    <3>1. {u \in FlagTasks : applied < u.n /\ u.n < k}'
             = {u \in FlagTasks : applied < u.n /\ u.n < k}
      BY <1>1, <2>1, <2>3
    <3> QED
      BY <2>1, <3>1 DEF Foreseen, Sets
  <2>5. \A u \in Work' : u.run = "message" => Foreseen(u.n, u.during)'
    <3>1. \A u \in Work' : u.run = "message" => u \in Work /\ u.n \in 1..sent
      BY <1>1, <1>2, <2>2
    <3> QED
      BY <2>4, <3>1 DEF Inv, FlagInv
  <2>6. Foreseen(sent + 1, link \in Syncing)'
    <3> DEFINE before == {u \in FlagTasks' : applied' < u.n /\ u.n < sent' + 1}
    <3>1. t \in before
      BY <1>1, <1>2, <2>1, <2>3
    <3>2. \A u \in before : (\A w \in before : w.n <= u.n) => u = t
      BY <1>1, <2>3, <3>1
    <3>3. Sets(t) <=> link' \in Syncing
      BY <2>2
    <3> QED
      BY <3>1, <3>2, <3>3 DEF Foreseen, Sets, Syncing
  <2>7. /\ \A u \in FlagTasks' : u.n # applied'
        /\ \A u, w \in FlagTasks' : u.n = w.n => u = w
    BY <1>1, <2>1, <2>3 DEF Inv, FlagInv
  <2> QED
    BY <2>5, <2>6, <2>7 DEF FlagInv
<1> QED
  BY <1>3, <1>4, <1>5 DEF Arrives

LEMMA ArrivalKeepsEvents ==
    ASSUME Inv, NEW N, Arrives(N)
    PROVE  EventInv'
<1>1. /\ sent \in Nat /\ \A t \in Work : t.n \in 1..sent
      /\ \A f \in filed : f.n \in 1..sent
      /\ \A g \in got : g.n \in 1..sent
  BY DEF Inv, TypeInv, Work
<1>2. /\ Work' = Work \cup N /\ got' = got
      /\ \A t \in N : t \in Task /\ t.n = sent + 1
  BY DEF Arrives, Brings, registry
<1>3. \A k : Copies(k)' = Copies(k)
  BY <1>2 DEF Copies
<1>4. Copies(sent + 1) = {} /\ FiledOf(sent + 1) = {} /\ Deliveries(sent + 1) = {}
        /\ \A t \in Work : t.n # sent + 1
  BY <1>1 DEF Copies, FiledOf, Deliveries
<1>5. \A k \in 1..sent : Deliveries(k)' = Deliveries(k)
  BY <1>1, <1>2 DEF Deliveries
<1>6. \A k \in 1..sent : FiledOf(k)' = FiledOf(k)
  BY <1>1 DEF FiledOf, Arrives, BringsOne, BringsMessages, BringsContact
<1>7. \A t \in N : Deliveries(t.n)' = {u \in N : u.run = "deliver"}
  BY <1>1, <1>2 DEF Deliveries
<1>8. ASSUME BringsOne(N) PROVE EventInv'
  <2>1. PICK t \in Task : N = {t} /\ t.run \in Single \cup {"history"} /\ ~t.m.history
    BY <1>8 DEF BringsOne
  <2>2. t.n = sent + 1 /\ FiledOf(t.n)' = {} /\ Copies(t.n)' = {} /\ Deliveries(t.n)' = {}
    BY <1>1, <1>2, <1>4, <1>7, <1>8, <2>1 DEF BringsOne, FiledOf, Copies, Deliveries, Single
  <2>3. SingleInv'
    BY <1>1, <1>2, <1>3, <1>6, <2>1, <2>2 DEF Inv, EventInv, SingleInv
  <2>4. BatchInv'
    BY <1>1, <1>2, <1>3, <1>5, <1>6, <2>1, <2>2 DEF Inv, EventInv, BatchInv
  <2>5. VerifyInv'
    BY <1>1, <1>2, <1>6, <2>1, <2>2 DEF Inv, EventInv, VerifyInv
  <2>6. DeliverInv'
    BY <1>1, <1>2, <1>3, <1>5, <1>6, <2>1, <2>2 DEF Inv, EventInv, DeliverInv, Single, Alike
  <2>7. GotInv'
    BY <1>1, <1>2, <1>6 DEF Inv, EventInv, GotInv, Alike
  <2> QED
    BY <2>3, <2>4, <2>5, <2>6, <2>7 DEF EventInv
<1>9. ASSUME BringsMessages(N) PROVE EventInv'
  <2>1. /\ \A t \in N : t.run \in {"verify", "deliver"} /\ ~t.m.history
        /\ \A t, u \in N : t.run = u.run => t = u
    BY <1>9 DEF BringsMessages
  <2>2. \A t \in N : FiledOf(t.n)' = {} /\ Copies(t.n)' = {}
    BY <1>2, <1>4, <1>9 DEF BringsMessages, FiledOf, Copies
  <2>3. SingleInv'
    BY <1>1, <1>2, <1>3, <1>6, <2>1 DEF Inv, EventInv, SingleInv, Single
  <2>4. BatchInv'
    BY <1>1, <1>2, <1>3, <1>5, <1>6, <2>1 DEF Inv, EventInv, BatchInv
  <2>5. VerifyInv'
    BY <1>1, <1>2, <1>6, <2>2 DEF Inv, EventInv, VerifyInv
  <2>6. DeliverInv'
    <3> DEFINE D(t) == /\ \A f \in FiledOf(t.n) : t.m.extra = 0 =>
                            t.m.history = f.history /\ (f.from = "live" => ~f.dropped)
                       /\ t.m.history => t.m.type # "unhandled" /\ \E f \in FiledOf(t.n) : f.history
                       /\ \A u \in Deliveries(t.n) : Alike(u.m, t.m) => u = t
                       /\ \A g \in Copies(t.n) : ~Alike(g, t.m)
    <3>1. ASSUME NEW t \in N, t.run = "deliver" PROVE D(t)'
      <4>1. \A u \in Deliveries(t.n)' : u = t
        BY <1>7, <2>1, <3>1
      <4> QED
        BY <2>1, <2>2, <4>1
    <3>2. ASSUME NEW t \in Work, t.run = "deliver" PROVE D(t)'
      <4>1. D(t)
        BY <3>2 DEF Inv, EventInv, DeliverInv
      <4>2. /\ FiledOf(t.n)' = FiledOf(t.n) /\ Copies(t.n)' = Copies(t.n)
            /\ Deliveries(t.n)' = Deliveries(t.n)
        BY <1>1, <1>3, <1>5, <1>6
      <4> QED
        BY <4>1, <4>2 DEF Alike
    <3> QED
      BY <1>2, <3>1, <3>2 DEF DeliverInv
  <2>7. GotInv'
    BY <1>1, <1>2, <1>6 DEF Inv, EventInv, GotInv, Alike
  <2> QED
    BY <2>3, <2>4, <2>5, <2>6, <2>7 DEF EventInv
<1>10. ASSUME BringsContact(N) PROVE EventInv'
  <2>1. PICK t \in Task, f \in Filed :
           /\ N = {t} /\ t.run = "deliver" /\ t.m.type = "contact"
           /\ filed' = filed \cup {f} /\ f.n = sent + 1
           /\ f.from = "contact" /\ f.history = t.m.history
    BY <1>10 DEF BringsContact
  <2>2. t.n = sent + 1 /\ FiledOf(t.n)' = {f} /\ Copies(t.n)' = {} /\ Deliveries(t.n)' = {t}
    BY <1>1, <1>2, <1>4, <1>7, <2>1 DEF FiledOf, Copies
  <2>3. SingleInv'
    BY <1>1, <1>2, <1>3, <1>6, <2>1 DEF Inv, EventInv, SingleInv, Single
  <2>4. BatchInv'
    BY <1>1, <1>2, <1>3, <1>5, <1>6, <2>1 DEF Inv, EventInv, BatchInv
  <2>5. VerifyInv'
    BY <1>1, <1>2, <1>6, <2>1 DEF Inv, EventInv, VerifyInv
  <2>6. DeliverInv'
    BY <1>1, <1>2, <1>3, <1>5, <1>6, <2>1, <2>2 DEF Inv, EventInv, DeliverInv, Alike
  <2>7. GotInv'
    BY <1>1, <1>2, <1>6 DEF Inv, EventInv, GotInv, Alike
  <2> QED
    BY <2>3, <2>4, <2>5, <2>6, <2>7 DEF EventInv
<1> QED
  BY <1>8, <1>9, <1>10 DEF Arrives

LEMMA ArrivalKeepsInv == Inv /\ Arrival => Inv'
BY ArrivalArrives, ArrivalKeepsTypes, ArrivalKeepsFlags, ArrivalKeepsEvents DEF Inv

(***************************************************************************)
(* What a goroutine leaves when it has run.                                *)
(***************************************************************************)

\* Its place is taken by others of the same event.
Replaced(t, N) ==
    /\ t \in Work
    /\ tasks' \subseteq Task /\ \A u \in tasks' : u.n \in 1..sent
    /\ Work' = (Work \ {t}) \cup N
    /\ N \subseteq Task /\ \A u \in N : u.n = t.n /\ u.run \in {"deliver", "history"}
    /\ UNCHANGED <<server, token, registry, scene>>

SetsFlags(t) ==
    /\ started' = Sets(t) /\ completed' = ~Sets(t)
    /\ overtaken' = (overtaken \/ t.n < applied)
    /\ applied' = IF t.n < applied THEN applied ELSE t.n

Verifies(t) == t.run = "verify" /\ verified' = TRUE /\ UNCHANGED late

\* It may end there, or go on with the rest of a batch, or with one message.
Rest(t, u) == t.run = "history" /\ u.run = "history" /\ t.in # <<>> /\ u.in = Tail(t.in)

GoesOn(t, N) ==
    /\ UNCHANGED <<got, filed>>
    /\ \/ N = {}
       \/ t.run \in Single /\ \E d : N = {d} /\ d.run = "deliver" /\ ~d.m.history
       \/ \E u : N = {u} /\ Rest(t, u)

\* It may take a message, with what follows from it, for history or not.
Takes(t, N) ==
    /\ UNCHANGED got
    /\ \E f \in Filed :
          /\ filed' = filed \cup {f} /\ f.n = t.n
          /\ \/ t.run = "message" /\ f.from = "live" /\ (f.inOrder => f.history = f.during)
             \/ t.run = "history" /\ f.from = "history" /\ f.history
          /\ \A u \in N : \/ Rest(t, u)
                          \/ /\ u.run = "deliver" /\ u.m.left = Len(t.in)
                             /\ u.m.extra = 0 => u.m.history = f.history /\ ~f.dropped
                             /\ u.m.history => u.m.type # "unhandled" /\ f.history
    /\ \A u, v \in N : u.run = v.run /\ (u.run = "deliver" => Alike(u.m, v.m)) => u = v

\* It may give the dispatching handlers a message.
Gives(t, N) ==
    /\ N = {} /\ UNCHANGED filed
    /\ \E m \in Msg :
          /\ \/ /\ t.run = "deliver" /\ Alike(m, t.m)
                /\ m.type = t.m.type /\ m.history = t.m.history
             \/ t.run = "receipt" /\ ~m.history
          /\ \A g \in got' \ got : /\ g.n = t.n /\ Alike(g, m) /\ g.type = m.type
                                   /\ g.queue = "history" <=> m.history
                                   /\ g.by \in 1..aeh /\ IsCopy(g)
    /\ got \subseteq got' /\ \A g, h \in got' \ got : g.by = h.by => g = h

Ends(t, N) ==
    /\ Replaced(t, N)
    /\ \/ UNCHANGED flags /\ t.run \notin {"preview", "completed"}
       \/ SetsFlags(t) /\ t.run \in {"preview", "completed"}
    /\ UNCHANGED bot \/ Verifies(t)
    /\ GoesOn(t, N) \/ Takes(t, N) \/ Gives(t, N)

LEMMA EndKeepsTypes ==
    ASSUME Inv, NEW t, NEW N, Ends(t, N)
    PROVE  TypeInv' /\ LogoutInv' /\ RegistryInv' /\ FiledInv'
<1>1. TypeInv'
  <2>1. sent' \in Nat /\ applied' \in 0..sent'
    <3>1. /\ sent \in Nat /\ applied \in 0..sent /\ sent' = sent
          /\ t.n \in 1..sent
      BY DEF Inv, TypeInv, Ends, Replaced, server, Work
    <3>2. applied' = applied \/ applied' = t.n
      BY DEF Ends, SetsFlags, flags
    <3> QED
      BY <3>1, <3>2
  <2>2. started' \in BOOLEAN /\ completed' \in BOOLEAN /\ overtaken' \in BOOLEAN
    <3>1. CASE UNCHANGED flags
      BY <3>1 DEF flags, Inv, TypeInv
    <3>2. CASE SetsFlags(t)
      BY <3>2 DEF SetsFlags, Sets
    <3> QED
      BY <3>1, <3>2 DEF Ends
  <2>3. /\ tasks' \subseteq Task /\ \A u \in tasks' : u.n \in 1..sent'
        /\ \A u \in Work' : u.run = "message" => u.in # <<>>
    BY DEF Inv, TypeInv, Ends, Replaced, server
  <2>4. filed' \subseteq Filed /\ \A f \in filed' : f.n \in 1..sent'
    BY DEF Inv, TypeInv, Ends, Replaced, server, GoesOn, Takes, Gives, Work
  <2>5. \A g \in got' : g.n \in 1..sent' /\ g.left \in Nat /\ IsCopy(g)
    <3>1. /\ t.n \in 1..sent /\ sent' = sent
          /\ \A g \in got : g.n \in 1..sent /\ g.left \in Nat /\ IsCopy(g)
      BY DEF Inv, TypeInv, Ends, Replaced, server, Work
    <3>2. \A g \in got' : g \in got \/ (g.n = t.n /\ g.left \in Nat /\ IsCopy(g))
      BY DEF Ends, GoesOn, Takes, Gives, Alike, Msg
    <3> QED
      BY <3>1, <3>2
  <2>6. (link \in {"down", "live", "out"} \cup Syncing)' /\ scene' \in DOMAIN Scenes
    BY DEF Inv, TypeInv, Ends, Replaced, server, Syncing
  <2> QED
    BY <2>1, <2>2, <2>3, <2>4, <2>5, <2>6 DEF TypeInv
<1>2. LogoutInv'
  <2>1. token' = token /\ late' = late /\ (UNCHANGED verified \/ t.run = "verify")
    BY DEF Ends, Replaced, Verifies, bot
  <2>2. t \in Work /\ \A u \in Work' : u \in Work \/ u.run # "verify"
    BY DEF Ends, Replaced
  <2> QED
    BY <2>1, <2>2 DEF Inv, LogoutInv
<1>3. RegistryInv'
  BY DEF Inv, RegistryInv, Ends, Replaced, registry
<1>4. FiledInv'
  BY DEF Inv, FiledInv, Ends, GoesOn, Takes, Gives
<1> QED
  BY <1>1, <1>2, <1>3, <1>4

LEMMA EndKeepsFlags ==
    ASSUME Inv, NEW t, NEW N, Ends(t, N)
    PROVE  FlagInv'
<1>1. /\ sent \in Nat /\ applied \in 0..sent /\ t \in Work /\ \A u \in Work : u.n \in 1..sent
      /\ overtaken \in BOOLEAN
  BY DEF Inv, TypeInv, Work, Ends, Replaced
<1>2. /\ sent' = sent /\ link' = link
      /\ FlagTasks' = FlagTasks \ {t}
      /\ \A u \in Work' : u.run = "message" => u \in Work
      /\ \A u \in FlagTasks : u \in Work
  BY DEF Ends, Replaced, FlagTasks, server
<1>3. Up' = Up
  BY <1>2 DEF Up, Syncing
<1> SUFFICES ASSUME \A k \in Nat : \A s : Foreseen(k, s) => Foreseen(k, s)',
                    \A u \in FlagTasks' : u.n # applied'
             PROVE  FlagInv'
  <2>1. CASE UNCHANGED flags /\ t.run \notin {"preview", "completed"}
    <3>1. FlagTasks' = FlagTasks
      BY <1>2, <2>1 DEF FlagTasks
    <3>2. UNCHANGED <<started, completed, applied, overtaken>>
      BY <2>1 DEF flags
    <3>3. \A k \in Nat : \A s : Foreseen(k, s) => Foreseen(k, s)'
      BY <3>1, <3>2 DEF Foreseen, Sets
    <3> QED
      BY <3>1, <3>2, <3>3 DEF Inv, FlagInv
  <2>2. CASE SetsFlags(t) /\ t.run \in {"preview", "completed"}
    <3>1. t \in FlagTasks /\ t.n # applied /\ \A u, w \in FlagTasks : u.n = w.n => u = w
      BY <1>1, <2>2 DEF FlagTasks, Inv, FlagInv
    <3>2. CASE t.n < applied
      <4>1. overtaken' /\ applied' = applied
        BY <2>2, <3>2 DEF SetsFlags
      <4>2. \A k \in Nat : \A s : Foreseen(k, s)'
        BY <4>1 DEF Foreseen
      <4>3. \A u \in FlagTasks' : u.n # applied'
        BY <1>2, <4>1 DEF Inv, FlagInv
      <4> QED
        BY <4>2, <4>3
    <3>3. CASE applied < t.n
      <4>1. /\ started' = Sets(t) /\ completed' = ~Sets(t) /\ overtaken' = overtaken
            /\ applied' = t.n
        BY <1>1, <2>2, <3>3 DEF SetsFlags
      <4>2. \A u \in FlagTasks' : u.n # applied'
        BY <1>2, <3>1, <4>1
      <4>3. ASSUME NEW k \in Nat, NEW s, Foreseen(k, s), ~overtaken, t.n < k
            PROVE  Foreseen(k, s)'
        <5> DEFINE before == {u \in FlagTasks : applied < u.n /\ u.n < k}
                   after == {u \in FlagTasks' : t.n < u.n /\ u.n < k}
        <5>1. t \in before /\ after \subseteq before
          BY <1>1, <1>2, <3>1, <3>3, <4>3
        <5>2. \A w \in before : w \in after \/ w.n <= t.n
          BY <1>1, <1>2, <3>1
        <5>3. \A u \in before : (\A w \in before : w.n <= u.n) => (Sets(u) <=> s)
          BY <1>1, <3>3, <4>3 DEF Foreseen
        <5>4. after = {} => (started' /\ ~completed' <=> s)
          <6>1. ASSUME after = {} PROVE Sets(t) <=> s
            BY <5>1, <5>2, <5>3, <6>1
          <6> QED
            BY <4>1, <6>1
        <5>5. \A u \in after : (\A w \in after : w.n <= u.n) => (Sets(u) <=> s)
          <6>1. TAKE u \in after
          <6>2. HAVE \A w \in after : w.n <= u.n
          <6>3. \A w \in before : w.n <= u.n
            <7>1. /\ t.n \in Nat /\ u.n \in Nat /\ t.n < u.n
                  /\ \A w \in before : w.n \in Nat
              BY <1>1, <1>2
            <7> QED
              BY <5>2, <6>2, <7>1
          <6> QED
            BY <5>1, <5>3, <6>3
        <5> QED
          BY <4>1, <5>4, <5>5 DEF Foreseen, Sets
      <4>4. \A k \in Nat : \A s : Foreseen(k, s) => Foreseen(k, s)'
        <5> SUFFICES ASSUME NEW k \in Nat, NEW s, Foreseen(k, s), ~overtaken, t.n < k
                     PROVE  Foreseen(k, s)'
          BY <4>1 DEF Foreseen
        <5> QED
          BY <4>3
      <4> QED
        BY <4>2, <4>4
    <3> QED
      BY <1>1, <3>1, <3>2, <3>3
  <2> QED
    BY <2>1, <2>2 DEF Ends
<1>4. \A u \in Work' : u.run = "message" => Foreseen(u.n, u.during)'
  BY <1>1, <1>2 DEF Inv, FlagInv
<1>5. Up' => Foreseen(sent + 1, link \in Syncing)'
  <2>1. sent + 1 \in Nat
    BY <1>1
  <2>2. Up' => Foreseen(sent + 1, link \in Syncing)
    BY <1>3 DEF Inv, FlagInv
  <2>3. ASSUME NEW k \in Nat, k = sent + 1, NEW s \in BOOLEAN, s <=> link \in Syncing,
               Foreseen(sent + 1, link \in Syncing)
        PROVE  Foreseen(sent + 1, link \in Syncing)'
    <3>1. Foreseen(k, s)
      BY <2>3 DEF Foreseen, Syncing
    <3>2. Foreseen(k, s)'
      BY <3>1
    <3> QED
      BY <1>2, <2>3, <3>2 DEF Foreseen, Syncing
  <2> QED
    BY <2>1, <2>2, <2>3
<1>6. \A u, w \in FlagTasks' : u.n = w.n => u = w
  BY <1>2 DEF Inv, FlagInv
<1> QED
  BY <1>4, <1>5, <1>6 DEF FlagInv

LEMMA EndKeepsEvents ==
    ASSUME Inv, NEW t, NEW N, Ends(t, N)
    PROVE  EventInv'
<1>1. /\ t \in Work /\ Work' = (Work \ {t}) \cup N
      /\ \A u \in N : u \in Task /\ u.n = t.n /\ u.run \in {"deliver", "history"}
      /\ aeh' = aeh
  BY DEF Ends, Replaced, registry
<1>2. SingleInv /\ BatchInv /\ VerifyInv /\ DeliverInv /\ GotInv
  BY DEF Inv, EventInv
<1>3. t \in Task /\ t.in \in Seq(Input)
  BY <1>1 DEF Inv, TypeInv, Work, Task
\* other events are not concerned
<1>4. \A k : k # t.n => /\ Deliveries(k)' = Deliveries(k) /\ FiledOf(k)' = FiledOf(k)
                        /\ Copies(k)' = Copies(k)
  <2>1. \A k : k # t.n => Deliveries(k)' = Deliveries(k)
    BY <1>1 DEF Deliveries
  <2>2. \A f \in filed' : f \in filed \/ f.n = t.n
    BY DEF Ends, GoesOn, Takes, Gives
  <2>3. \A g \in got' : g \in got \/ g.n = t.n
    BY DEF Ends, GoesOn, Takes, Gives
  <2>4. filed \subseteq filed' /\ got \subseteq got'
    BY DEF Ends, GoesOn, Takes, Gives
  <2> QED
    BY <2>1, <2>2, <2>3, <2>4 DEF FiledOf, Copies
<1>5. \A u \in Work' : u.n # t.n => u \in Work
  BY <1>1
<1>6. \A u \in Work : t.run \in Single /\ u.n = t.n => u = t
  BY <1>1, <1>2 DEF SingleInv
<1>7. \A u \in Work' : u.run \in Single => u \in Work /\ u.n # t.n
  BY <1>1, <1>2 DEF SingleInv, Single
<1>8. SingleInv'
  BY <1>2, <1>4, <1>5, <1>7 DEF SingleInv
<1>9. \A u \in Work' : u.run = "verify" => u \in Work
  BY <1>1
\* what is new is of the event of t
<1> DEFINE B(u) == /\ \A w \in Work : w.n = u.n => w = u \/ w.run = "deliver"
                   /\ \A f \in FiledOf(u.n) : f.from = "history" /\ f.history
                   /\ \A w \in Deliveries(u.n) : /\ w.m.left > Len(u.in)
                                                 /\ w.m.extra = 0 => w.m.history
                   /\ \A g \in Copies(u.n) : /\ g.left > Len(u.in)
                                             /\ g.extra = 0 => g.queue = "history"
           D(u) == /\ \A f \in FiledOf(u.n) : u.m.extra = 0 =>
                          u.m.history = f.history /\ (f.from = "live" => ~f.dropped)
                   /\ u.m.history => u.m.type # "unhandled" /\ \E f \in FiledOf(u.n) : f.history
                   /\ \A w \in Deliveries(u.n) : Alike(w.m, u.m) => w = u
                   /\ \A g \in Copies(u.n) : ~Alike(g, u.m)
           G(k) == /\ \A g \in Copies(k) : \A f \in FiledOf(k) : g.extra = 0 =>
                          (g.queue = "history" <=> f.history) /\ (f.from = "live" => ~f.dropped)
                   /\ \A g \in Copies(k) : g.queue = "history" =>
                          g.type # "unhandled" /\ \E f \in FiledOf(k) : f.history
                   /\ \A g, h \in Copies(k) : Alike(g, h) => g = h
           V(u) == FiledOf(u.n) = {}
<1>10. /\ \A u \in Work : u.run = "history" => B(u)
       /\ \A u \in Work : u.run = "verify" => V(u)
       /\ \A u \in Work : u.run = "deliver" => D(u)
       /\ \A k : G(k)
  BY <1>2 DEF BatchInv, VerifyInv, DeliverInv, GotInv, Copies
<1>11. ASSUME \A u \in Work' : u.n = t.n /\ u.run = "history" => B(u)',
              \A u \in Work' : u.n = t.n /\ u.run = "verify" => V(u)',
              \A u \in Work' : u.n = t.n /\ u.run = "deliver" => D(u)',
              G(t.n)'
       PROVE  EventInv'
  <2>1. \A u \in Work' : u.n # t.n /\ u.run = "history" => B(u)'
    BY <1>1, <1>4, <1>5, <1>10
  <2>2. \A u \in Work' : u.n # t.n /\ u.run = "verify" => V(u)'
    BY <1>4, <1>5, <1>10
  <2>3. \A u \in Work' : u.n # t.n /\ u.run = "deliver" => D(u)'
    BY <1>4, <1>5, <1>10
  <2>4. \A k : k # t.n => G(k)'
    BY <1>1, <1>4, <1>10
  <2>5. BatchInv'
    BY <1>11, <2>1 DEF BatchInv
  <2>6. VerifyInv'
    BY <1>11, <2>2 DEF VerifyInv
  <2>7. DeliverInv'
    BY <1>11, <2>3 DEF DeliverInv
  <2>8. GotInv'
    BY <1>11, <2>4 DEF GotInv, Copies
  <2> QED
    BY <1>8, <2>5, <2>6, <2>7, <2>8 DEF EventInv
<1>12. ASSUME NEW u \in Work, u.n = t.n
       PROVE  /\ t.run = "history" => u = t \/ u.run = "deliver"
              /\ t.run \in Single => u = t
  BY <1>1, <1>6, <1>10, <1>12
<1>13. CASE GoesOn(t, N)
  <2>1. FiledOf(t.n)' = FiledOf(t.n) /\ Copies(t.n)' = Copies(t.n)
    BY <1>13 DEF GoesOn, FiledOf, Copies
  <2>2. G(t.n)'
    BY <1>1, <1>10, <2>1
  <2>3. CASE N = {}
    <3>1. Work' \subseteq Work /\ Deliveries(t.n)' \subseteq Deliveries(t.n)
      BY <1>1, <2>3 DEF Deliveries
    <3>2. \A u \in Work' : u.n = t.n /\ u.run = "history" => B(u)'
      BY <1>10, <2>1, <3>1
    <3>3. \A u \in Work' : u.n = t.n /\ u.run = "verify" => V(u)'
      BY <1>10, <2>1, <3>1
    <3>4. \A u \in Work' : u.n = t.n /\ u.run = "deliver" => D(u)'
      BY <1>10, <2>1, <3>1
    <3> QED
      BY <1>11, <2>2, <3>2, <3>3, <3>4
  <2>4. ASSUME t.run \in Single, NEW d, N = {d}, d.run = "deliver", ~d.m.history
        PROVE  EventInv'
    <3>1. FiledOf(t.n) = {} /\ Copies(t.n) = {} /\ \A u \in Work' : u.n = t.n => u = d
      BY <1>1, <1>2, <1>6, <2>4 DEF SingleInv
    <3>2. Deliveries(t.n)' \subseteq {d}
      BY <3>1 DEF Deliveries
    <3>3. d.n = t.n
      BY <1>1, <2>4
    <3>4. D(d)'
      BY <2>1, <2>4, <3>1, <3>2, <3>3
    <3> QED
      BY <1>11, <2>2, <2>4, <3>1, <3>4
  <2>5. ASSUME NEW u, N = {u}, Rest(t, u)
        PROVE  EventInv'
    <3>1. t.run = "history" /\ u.run = "history" /\ u.n = t.n /\ Len(u.in) < Len(t.in)
            /\ Len(u.in) \in Nat /\ Len(t.in) \in Nat
      BY <1>1, <1>3, <2>5 DEF Rest
    <3>2. Deliveries(t.n)' = Deliveries(t.n)
      BY <1>1, <2>5, <3>1 DEF Deliveries
    <3>3. \A w \in Work' : w.n = t.n => w = u \/ (w \in Work /\ w.run = "deliver")
      BY <1>1, <1>12, <2>5, <3>1
    <3>4. /\ \A w \in Deliveries(t.n) : w.m.left \in Nat
          /\ \A g \in Copies(t.n) : g.left \in Nat
      BY DEF Inv, TypeInv, Deliveries, Copies, Work, Task, Msg
    <3>5. B(t)
      BY <1>1, <1>10, <3>1
    <3>6. B(u)'
      BY <2>1, <3>1, <3>2, <3>3, <3>4, <3>5
    <3>7. \A w \in Work' : w.n = t.n /\ w.run = "deliver" => D(w)'
      BY <1>10, <2>1, <3>1, <3>2, <3>3
    <3>8. \A w \in Work' : w.n = t.n => w = u \/ w.run = "deliver"
      BY <3>3
    <3> QED
      BY <1>11, <2>2, <3>1, <3>6, <3>7, <3>8
  <2> QED
    BY <1>13, <2>3, <2>4, <2>5 DEF GoesOn
<1>14. CASE Gives(t, N)
  <2>1. Work' = Work \ {t} /\ FiledOf(t.n)' = FiledOf(t.n)
          /\ Deliveries(t.n)' \subseteq Deliveries(t.n)
    BY <1>1, <1>14 DEF Gives, FiledOf, Deliveries
  <2>2. PICK m \in Msg :
          /\ \/ /\ t.run = "deliver" /\ Alike(m, t.m)
                /\ m.type = t.m.type /\ m.history = t.m.history
             \/ t.run = "receipt" /\ ~m.history
          /\ \A g \in got' \ got : /\ g.n = t.n /\ Alike(g, m) /\ g.type = m.type
                                   /\ g.queue = "history" <=> m.history
                                   /\ g.by \in 1..aeh /\ IsCopy(g)
    BY <1>14 DEF Gives
  <2>3. /\ Copies(t.n) \subseteq Copies(t.n)'
        /\ \A g \in Copies(t.n)' : g \in Copies(t.n) \/ g \in got' \ got
    BY <1>14 DEF Gives, Copies
  <2>4. CASE t.run = "deliver"
    <3>1. D(t) /\ t \in Deliveries(t.n)
      BY <1>1, <1>10, <2>4 DEF Deliveries
    <3>2. Alike(m, t.m) /\ m.type = t.m.type /\ m.history = t.m.history
      BY <2>2, <2>4
    <3>3. \A w \in Work' : w.n = t.n /\ w.run = "history" => B(w)'
      BY <1>10, <2>1, <2>2, <2>3, <3>1, <3>2 DEF Alike
    <3>4. \A w \in Work' : w.n = t.n /\ w.run = "verify" => V(w)'
      BY <1>10, <2>1
    <3>5. ASSUME NEW w \in Work', w.n = t.n, w.run = "deliver" PROVE D(w)'
      <4>1. D(w) /\ w # t /\ w \in Work
        BY <1>10, <2>1, <3>5
      <4>2. ~Alike(t.m, w.m)
        BY <3>1, <3>5, <4>1
      <4>3. \A g \in Copies(t.n)' : ~Alike(g, w.m)
        BY <2>2, <2>3, <3>2, <3>5, <4>1, <4>2 DEF Alike
      <4> QED
        BY <2>1, <3>5, <4>1, <4>3
    <3>6. G(t.n)'
      <4>1. \A g \in Copies(t.n)' : \A f \in FiledOf(t.n) : g.extra = 0 =>
               (g.queue = "history" <=> f.history) /\ (f.from = "live" => ~f.dropped)
        BY <1>10, <2>2, <2>3, <3>1, <3>2 DEF Alike
      <4>2. \A g \in Copies(t.n)' : g.queue = "history" =>
               g.type # "unhandled" /\ \E f \in FiledOf(t.n) : f.history
        BY <1>10, <2>2, <2>3, <3>1, <3>2
      <4>3. ASSUME NEW g \in Copies(t.n)', NEW h \in Copies(t.n)', Alike(g, h)
            PROVE  g = h
        <5>1. CASE g \in Copies(t.n) /\ h \in Copies(t.n)
          BY <1>10, <4>3, <5>1
        <5>2. CASE g \in got' \ got /\ h \in got' \ got
          <6>1. g.by = h.by
            BY <2>2, <4>3, <5>2 DEF Inv, RegistryInv
          <6> QED
            BY <1>14, <5>2, <6>1 DEF Gives
        <5>3. CASE \E x \in Copies(t.n), y \in got' \ got : Alike(x, y)
          BY <2>2, <3>1, <3>2, <5>3 DEF Alike
        <5> QED
          BY <2>3, <4>3, <5>1, <5>2, <5>3 DEF Alike
      <4> QED
        BY <1>1, <2>1, <4>1, <4>2, <4>3
    <3> QED
      BY <1>11, <3>3, <3>4, <3>5, <3>6
  <2>5. CASE t.run = "receipt"
    <3>1. FiledOf(t.n) = {} /\ Copies(t.n) = {} /\ \A u \in Work' : u.n # t.n
      BY <1>1, <1>2, <1>6, <2>1, <2>5 DEF SingleInv, Single
    <3>2. \A g \in Copies(t.n)' : g \in got' \ got /\ g.queue # "history" /\ g.by \in 1..aeh
      BY <2>2, <2>3, <2>5, <3>1
    <3>3. \A g, h \in Copies(t.n)' : g.by = h.by
      BY <3>2 DEF Inv, RegistryInv
    <3>4. \A g, h \in Copies(t.n)' : g.by = h.by => g = h
      BY <1>14, <3>2 DEF Gives
    <3>5. G(t.n)'
      BY <1>1, <2>1, <3>1, <3>2, <3>3, <3>4
    <3> QED
      BY <1>11, <3>1, <3>5
  <2> QED
    BY <2>2, <2>4, <2>5
<1>15. CASE Takes(t, N)
  <2>1. PICK f \in Filed :
          /\ filed' = filed \cup {f} /\ f.n = t.n
          /\ \/ t.run = "message" /\ f.from = "live" /\ (f.inOrder => f.history = f.during)
             \/ t.run = "history" /\ f.from = "history" /\ f.history
          /\ \A u \in N : \/ Rest(t, u)
                          \/ /\ u.run = "deliver" /\ u.m.left = Len(t.in)
                             /\ u.m.extra = 0 => u.m.history = f.history /\ ~f.dropped
                             /\ u.m.history => u.m.type # "unhandled" /\ f.history
    BY <1>15 DEF Takes
  <2>2. Copies(t.n)' = Copies(t.n) /\ FiledOf(t.n)' = FiledOf(t.n) \cup {f}
    BY <1>15, <2>1 DEF Takes, Copies, FiledOf
  <2>3. /\ \A u \in N : u.run = "history" => Rest(t, u)
        /\ \A u \in N : u.run = "deliver" =>
              /\ u.m.left = Len(t.in)
              /\ u.m.extra = 0 => u.m.history = f.history /\ ~f.dropped
              /\ u.m.history => u.m.type # "unhandled" /\ f.history
        /\ \A u, v \in N : u.run = v.run /\ (u.run = "deliver" => Alike(u.m, v.m)) => u = v
    BY <1>15, <2>1 DEF Takes, Rest
  <2>4. CASE t.run = "message"
    <3>1. /\ FiledOf(t.n) = {} /\ Copies(t.n) = {} /\ \A u \in Work' : u.n = t.n => u \in N
          /\ \A u \in N : u.run = "deliver"
      BY <1>1, <1>2, <1>6, <2>3, <2>4 DEF SingleInv, Single, Rest
    <3>2. Deliveries(t.n)' \subseteq N
      BY <3>1 DEF Deliveries
    <3>3. \A u \in N : D(u)'
      BY <1>1, <2>2, <2>3, <3>1, <3>2
    <3>4. G(t.n)'
      BY <2>2, <3>1
    <3> QED
      BY <1>11, <3>1, <3>3, <3>4
  <2>5. CASE t.run = "history"
    <3>1. B(t) /\ Len(t.in) \in Nat /\ f.from = "history" /\ f.history
      BY <1>1, <1>3, <1>10, <2>1, <2>5
    <3>2. /\ \A w \in Deliveries(t.n) : w.m.left \in Nat
          /\ \A g \in Copies(t.n) : g.left \in Nat
      BY DEF Inv, TypeInv, Deliveries, Copies, Work, Task, Msg
    <3>3. \A w \in Work' : w.n = t.n => w \in N \/ (w \in Work /\ w.run = "deliver")
      BY <1>1, <1>12, <2>5
    <3>4. \A w \in Deliveries(t.n)' : w \in Deliveries(t.n) \/ (w \in N /\ w.run = "deliver")
      BY <1>1 DEF Deliveries
    <3>5. ASSUME NEW u \in N, u.run = "history" PROVE B(u)'
      <4>1. u.n = t.n /\ Len(u.in) < Len(t.in) /\ Len(u.in) \in Nat
        <5>1. Rest(t, u) /\ u.n = t.n
          BY <1>1, <2>3, <3>5
        <5> QED
          BY <1>3, <5>1 DEF Rest
      <4>2. \A w \in Work' : w.n = u.n => w = u \/ w.run = "deliver"
        BY <1>1, <2>3, <3>3, <3>5, <4>1
      <4>3. \A w \in Deliveries(t.n)' : w.m.left > Len(u.in) /\ (w.m.extra = 0 => w.m.history)
        <5>1. ASSUME NEW w \in Deliveries(t.n)
              PROVE  w.m.left > Len(u.in) /\ (w.m.extra = 0 => w.m.history)
          BY <3>1, <3>2, <4>1, <5>1
        <5>2. ASSUME NEW w \in N, w.run = "deliver"
              PROVE  w.m.left > Len(u.in) /\ (w.m.extra = 0 => w.m.history)
          BY <2>3, <3>1, <4>1, <5>2
        <5> QED
          BY <3>4, <5>1, <5>2
      <4>4. \A g \in Copies(t.n) : g.left > Len(u.in) /\ (g.extra = 0 => g.queue = "history")
        BY <3>1, <3>2, <4>1
      <4> QED
        BY <2>2, <3>1, <4>1, <4>2, <4>3, <4>4
    <3>6. ASSUME NEW u \in N, u.run = "deliver" PROVE D(u)'
      <4>1. u.n = t.n /\ u.m.left = Len(t.in)
        BY <1>1, <2>3, <3>6
      <4>2. \A w \in Deliveries(t.n)' : Alike(w.m, u.m) => w = u
        BY <2>3, <3>1, <3>2, <3>4, <3>6, <4>1 DEF Alike
      <4>3. \A g \in Copies(t.n) : ~Alike(g, u.m)
        BY <3>1, <3>2, <4>1 DEF Alike
      <4> QED
        BY <2>2, <2>3, <3>1, <3>6, <4>1, <4>2, <4>3
    <3>7. ASSUME NEW u \in Work, u.n = t.n, u.run = "deliver" PROVE D(u)'
      <4>1. D(u) /\ u \in Deliveries(t.n)
        BY <1>10, <3>7 DEF Deliveries
      <4>2. \A w \in Deliveries(t.n)' : Alike(w.m, u.m) => w = u
        <5>1. ASSUME NEW w \in Deliveries(t.n), Alike(w.m, u.m) PROVE w = u
          BY <3>7, <4>1, <5>1
        <5>2. ASSUME NEW w \in N, w.run = "deliver" PROVE ~Alike(w.m, u.m)
          <6>1. w.m.left = Len(t.in) /\ u.m.left > Len(t.in)
            BY <2>3, <3>1, <4>1, <5>2
          <6> QED
            BY <3>1, <6>1 DEF Alike
        <5> QED
          BY <3>4, <5>1, <5>2
      <4> QED
        BY <2>2, <3>1, <3>7, <4>1, <4>2
    <3>8. G(t.n)'
      BY <1>1, <1>10, <2>2, <3>1
    <3> QED
      BY <1>1, <1>11, <3>3, <3>5, <3>6, <3>7, <3>8
  <2> QED
    BY <2>1, <2>4, <2>5
<1> QED
  BY <1>13, <1>14, <1>15 DEF Ends

LEMMA EndKeepsInv ==
    ASSUME Inv, NEW t, NEW N, Ends(t, N)
    PROVE  Inv'
BY EndKeepsTypes, EndKeepsFlags, EndKeepsEvents DEF Inv

(***************************************************************************)
(* Every goroutine ends so.                                                *)
(***************************************************************************)
LEMMA DoneReplaces ==
    ASSUME TypeInv, NEW t \in Work, NEW new \in SUBSET Task, Done(t, new), Alone,
           \A u \in new : u.n = t.n /\ u.run \in {"deliver", "history", "mark"}
    PROVE  Replaced(t, {u \in new : u.run # "mark"})
<1>1. t \in tasks /\ t.run # "mark" /\ t \in Task /\ t.n \in 1..sent
  BY DEF TypeInv, Work
<1>2. tasks' \subseteq Task /\ \A u \in tasks' : u.n \in 1..sent
  BY <1>1 DEF TypeInv, Done
<1>3. Work' = (Work \ {t}) \cup {u \in new : u.run # "mark"}
  BY <1>1 DEF Work, Done
<1> QED
  BY <1>2, <1>3 DEF Replaced, Alone

\* What is followed on, of a message and of those that come with it.
LEMMA FollowedByType ==
    ASSUME NEW t \in Task, NEW in \in Input, NEW m \in Msg, m.extra = 0,
           NEW new, new = {u \in FollowedBy(t, m, in) : u.run # "mark"}
    PROVE  /\ FollowedBy(t, m, in) \subseteq Task
           /\ \A u \in FollowedBy(t, m, in) : u.n = t.n /\ u.run \in {"deliver", "mark"}
           /\ \A u \in new : /\ u.run = "deliver" /\ u.m.left = m.left
                             /\ u.m.extra = 0 =>
                                   u.m = m /\ ~(m.type = "unhandled" /\ m.history)
                             /\ u.m.history => u.m = m /\ u.m.type # "unhandled"
           /\ \A u, v \in new : Alike(u.m, v.m) => u = v
<1> DEFINE followed == Extras(m, in) \cup (IF m.type = "unhandled" /\ m.history THEN {} ELSE {m})
<1>1. /\ \A x \in Extras(m, in) : /\ x \in Msg /\ x.type = "contact" /\ x.history = FALSE
                                  /\ x.left = m.left /\ x.extra # 0
      /\ \A x, y \in Extras(m, in) : x.extra = y.extra => x = y
  BY ExtrasType
<1>2. \A x \in followed : /\ x \in Msg /\ x.left = m.left
                          /\ x.extra = 0 => x = m /\ ~(m.type = "unhandled" /\ m.history)
                          /\ x.history => x = m /\ x.type # "unhandled"
  BY <1>1
<1>3. \A x, y \in followed : x.extra = y.extra => x = y
  BY <1>1
<1>4. FollowedBy(t, m, in) = UNION {Following(t, x) : x \in followed}
  BY DEF FollowedBy
<1> HIDE DEF followed
<1>5. \A x \in followed : \A u \in Following(t, x) :
         \/ u = Delivery(t, x) /\ Delivers(u, t, x)
         \/ u \in Task /\ u.run = "mark" /\ u.n = t.n
  BY <1>2, FollowingType
<1>6. \A u \in FollowedBy(t, m, in) :
         \/ \E x \in followed : u = Delivery(t, x) /\ Delivers(u, t, x)
         \/ u \in Task /\ u.run = "mark" /\ u.n = t.n
  BY <1>4, <1>5
<1>7. \A u \in new : u.m \in followed /\ u = Delivery(t, u.m) /\ u.run = "deliver"
  BY <1>6 DEF Delivers
<1>8. /\ FollowedBy(t, m, in) \subseteq Task
      /\ \A u \in FollowedBy(t, m, in) : u.n = t.n /\ u.run \in {"deliver", "mark"}
  BY <1>6 DEF Delivers
<1>9. \A u, v \in new : Alike(u.m, v.m) => u = v
  BY <1>3, <1>7 DEF Alike
<1> QED
  BY <1>2, <1>7, <1>8, <1>9

\* What is made of an incoming message.
LEMMA ConvertedType ==
    ASSUME TypeInv, NEW t \in Task, NEW in \in Input, NEW from \in {"live", "history"}
    PROVE  LET m == Converted(t, from, in)
           IN /\ m \in Msg /\ m.extra = 0 /\ m.left = Len(t.in)
              /\ m.history = isHistoryMessage(from)
<1> DEFINE o == [Blank EXCEPT !.chat = in.chat, !.left = Len(t.in),
                              !.history = isHistoryMessage(from)]
<1>1. isHistoryMessage(from) \in BOOLEAN
  BY DEF isHistoryMessage
<1>2. in.chat \in Chats /\ Len(t.in) \in Nat
  BY DEF Input, Task
<1>3. Blank \in Msg /\ Blank.extra = 0
  BY BlankType DEF Blank
<1>4. o \in Msg /\ o.extra = 0 /\ o.left = Len(t.in) /\ o.history = isHistoryMessage(from)
  BY <1>1, <1>2, <1>3 DEF Msg
<1> HIDE DEF o
<1>5. Converted(t, from, in) = HandleKnowingMessages(o, in)
  BY DEF Converted, o
<1> QED
  BY <1>4, <1>5, HandlerKeepsOrigin

\* What File adds.
Entry(t, from, m) == [n |-> t.n, from |-> from, during |-> t.during,
                      inOrder |-> InOrder(t), history |-> m.history,
                      dropped |-> m.type = "unhandled" /\ m.history]

LEMMA EntryType ==
    ASSUME NEW t \in Task, NEW from \in {"live", "history"}, NEW m \in Msg
    PROVE  LET f == Entry(t, from, m)
           IN /\ f \in Filed /\ f.n = t.n /\ f.from = from /\ f.history = m.history
              /\ f.during = t.during
              /\ f.dropped <=> m.type = "unhandled" /\ m.history
              /\ f.inOrder <=> InOrder(t)
<1>1. t.n \in Nat /\ t.during \in BOOLEAN /\ m.history \in BOOLEAN
  BY DEF Task, Msg
<1>2. InOrder(t) \in BOOLEAN /\ (m.type = "unhandled" /\ m.history) \in BOOLEAN
  BY DEF InOrder
<1> QED
  BY <1>1, <1>2 DEF Entry, Filed

LEMMA TriggerGives ==
    ASSUME NEW t \in Task, NEW m \in Msg, Trigger(t, m)
    PROVE  /\ got \subseteq got'
           /\ \A g \in got' \ got : /\ g.n = t.n /\ Alike(g, m) /\ g.type = m.type
                                    /\ g.queue = "history" <=> m.history
                                    /\ g.by \in 1..aeh /\ IsCopy(g)
           /\ \A g, h \in got' \ got : g.by = h.by => g = h
<1> DEFINE copy(h) == [n |-> t.n, extra |-> m.extra, type |-> m.type, debug |-> m.debug,
                       queue |-> DetermineRoutingKey(m), by |-> h, left |-> m.left]
<1>1. DetermineRoutingKey(m) = "history" <=> m.history
  BY DEF DetermineRoutingKey, Msg
<1>2. \A h : /\ copy(h).n = t.n /\ Alike(copy(h), m) /\ copy(h).type = m.type
             /\ copy(h).queue = "history" <=> m.history
             /\ copy(h).by = h /\ IsCopy(copy(h))
  BY <1>1 DEF Alike, IsCopy
<1>3. got' = got \/ got' = got \cup {copy(h) : h \in 1..aeh}
  BY DEF Trigger
<1> HIDE DEF copy
<1>4. \A g \in got' \ got : \E h \in 1..aeh : g = copy(h)
  BY <1>3
<1> QED
  BY <1>2, <1>3, <1>4

\* What does nothing but go on.
LEMMA PlainEnds ==
    ASSUME TypeInv, NEW t \in Work, t.run \notin {"preview", "completed"}, Alone,
           UNCHANGED <<flags, got, filed>>, UNCHANGED bot \/ Verifies(t),
           NEW new \in SUBSET Task, Done(t, new),
           \A u \in new : u.n = t.n /\ u.run \in {"deliver", "history"},
           GoesOn(t, new)
    PROVE  \E N : Ends(t, N)
<1>1. new = {u \in new : u.run # "mark"}
  OBVIOUS
<1>2. Replaced(t, new)
  BY <1>1, DoneReplaces
<1> QED
  BY <1>2 DEF Ends

LEMMA MessageEnds ==
    ASSUME TypeInv, FlagInv, NEW t \in Running("message"), Message(t)
    PROVE  \E N : Ends(t, N)
<1> DEFINE in == Head(t.in)
           m == Converted(t, "live", in)
           new == {u \in FollowedBy(t, m, in) : u.run # "mark"}
           f == Entry(t, "live", m)
<1>1. t \in Work /\ t \in Task /\ t.run = "message" /\ t.in # <<>> /\ t.in \in Seq(Input)
  BY DEF Running, Work, TypeInv, Task
<1>2. in \in Input
  BY <1>1
<1>3. Alone /\ UNCHANGED <<flags, got, bot>>
  BY DEF Message, effects
<1>4. CASE in.web = "nil"
  <2>1. Done(t, {}) /\ UNCHANGED filed
    BY <1>4 DEF Message
  <2>2. GoesOn(t, {})
    BY <1>3, <2>1 DEF GoesOn
  <2> QED
    BY <1>1, <1>3, <2>1, <2>2, PlainEnds
<1>5. CASE in.web # "nil"
  <2>1. Done(t, FollowedBy(t, m, in)) /\ filed' = filed \cup {f}
    BY <1>5 DEF Message, File, Entry
  <2> HIDE DEF in
  <2>2. m \in Msg /\ m.extra = 0 /\ m.left = Len(t.in) /\ m.history = isHistoryMessage("live")
    BY <1>1, <1>2, ConvertedType
  <2> HIDE DEF m
  <2>3. /\ f \in Filed /\ f.n = t.n /\ f.from = "live" /\ f.history = m.history
        /\ f.during = t.during
        /\ f.dropped <=> m.type = "unhandled" /\ m.history
        /\ f.inOrder <=> InOrder(t)
    BY <1>1, <2>2, EntryType
  <2> new = {u \in FollowedBy(t, m, in) : u.run # "mark"}
    OBVIOUS
  <2> HIDE DEF new
  <2>4. /\ FollowedBy(t, m, in) \subseteq Task
        /\ \A u \in FollowedBy(t, m, in) : u.n = t.n /\ u.run \in {"deliver", "mark"}
        /\ \A u \in new : /\ u.run = "deliver" /\ u.m.left = m.left
                          /\ u.m.extra = 0 => u.m = m /\ ~(m.type = "unhandled" /\ m.history)
                          /\ u.m.history => u.m = m /\ u.m.type # "unhandled"
        /\ \A u, v \in new : Alike(u.m, v.m) => u = v
    BY <1>1, <1>2, <2>2, FollowedByType
  <2>5. Replaced(t, new)
    BY <1>1, <1>3, <2>1, <2>4, DoneReplaces
  <2> HIDE DEF f
  <2>6. f.inOrder => f.history = f.during
    <3>1. SUFFICES ASSUME InOrder(t) PROVE m.history = t.during
      BY <2>3
    <3>2. Foreseen(t.n, t.during)
      BY <1>1 DEF FlagInv
    <3>3. ~overtaken /\ applied < t.n /\ \A u \in FlagTasks : u.n > t.n
      BY <3>1 DEF InOrder, FlagTasks, Work
    <3>4. {u \in FlagTasks : applied < u.n /\ u.n < t.n} = {}
      <4>1. t.n \in Nat /\ \A u \in FlagTasks : u.n \in Nat
        BY <1>1 DEF FlagTasks, Work, TypeInv, Task
      <4> QED
        BY <3>3, <4>1
    <3>5. started /\ ~completed <=> t.during
      BY <3>2, <3>3, <3>4 DEF Foreseen
    <3>6. m.history \in BOOLEAN /\ t.during \in BOOLEAN
      BY <1>1, <2>2 DEF Msg, Task
    <3> QED
      BY <2>2, <3>5, <3>6 DEF isHistoryMessage
  <2>7. Takes(t, new)
    <3>1. UNCHANGED got /\ t.run = "message"
      BY <1>1, <1>3
    <3>2. \A u \in new : /\ u.run = "deliver" /\ u.m.left = Len(t.in)
                         /\ u.m.extra = 0 => u.m.history = f.history /\ ~f.dropped
                         /\ u.m.history => u.m.type # "unhandled" /\ f.history
      BY <2>2, <2>3, <2>4
    <3>3. \A u, v \in new : u.run = v.run /\ (u.run = "deliver" => Alike(u.m, v.m)) => u = v
      BY <2>4
    <3> QED
      BY <2>1, <2>3, <2>6, <3>1, <3>2, <3>3 DEF Takes
  <2> QED
    BY <1>1, <1>3, <2>5, <2>7 DEF Ends
<1> QED
  BY <1>4, <1>5

LEMMA HistoryEnds ==
    ASSUME TypeInv, NEW t \in Running("history"), OnHistorySyncEvent(t)
    PROVE  \E N : Ends(t, N)
<1> DEFINE in == Head(t.in)
           m == Converted(t, "history", in)
           rest == [t EXCEPT !.in = Tail(t.in)]
           new == {u \in FollowedBy(t, m, in) : u.run # "mark"}
           f == Entry(t, "history", m)
<1>1. t \in Work /\ t \in Task /\ t.run = "history" /\ t.in \in Seq(Input)
  BY DEF Running, Work, TypeInv, Task
<1>2. Alone /\ UNCHANGED <<flags, got, bot>>
  BY DEF OnHistorySyncEvent, effects
<1>3. CASE t.in = <<>> \/ in.web = "broken"
  <2>1. Done(t, {}) /\ UNCHANGED filed
    BY <1>3 DEF OnHistorySyncEvent
  <2>2. GoesOn(t, {})
    BY <1>2, <2>1 DEF GoesOn
  <2> QED
    BY <1>1, <1>2, <2>1, <2>2, PlainEnds
<1>4. ASSUME t.in # <<>>
      PROVE  rest \in Task /\ rest.n = t.n /\ rest.run = "history" /\ Rest(t, rest) /\ in \in Input
  BY <1>1, <1>4 DEF Task, Rest
<1>5. CASE t.in # <<>> /\ in.web \in {"old", "nil"}
  <2>1. Done(t, {rest}) /\ UNCHANGED filed
    BY <1>5 DEF OnHistorySyncEvent
  <2> HIDE DEF rest
  <2>2. GoesOn(t, {rest})
    BY <1>2, <1>4, <1>5, <2>1 DEF GoesOn
  <2> QED
    BY <1>1, <1>2, <1>4, <1>5, <2>1, <2>2, PlainEnds
<1>6. CASE t.in # <<>> /\ in.web \notin {"broken", "old", "nil"}
  <2>1. Done(t, {rest} \cup FollowedBy(t, m, in)) /\ filed' = filed \cup {f}
    BY <1>6 DEF OnHistorySyncEvent, File, Entry
  <2>2. in \in Input /\ rest \in Task /\ rest.n = t.n /\ rest.run = "history" /\ Rest(t, rest)
    BY <1>4, <1>6
  <2> HIDE DEF in, rest
  <2>3. m \in Msg /\ m.extra = 0 /\ m.left = Len(t.in) /\ m.history
    BY <1>1, <2>2, ConvertedType DEF isHistoryMessage
  <2> HIDE DEF m
  <2>4. /\ f \in Filed /\ f.n = t.n /\ f.from = "history" /\ f.history = m.history
        /\ f.dropped <=> m.type = "unhandled" /\ m.history
    <3>1. t \in Task /\ m \in Msg
      BY <1>1, <2>3
    <3> QED
      BY <3>1, EntryType
  <2> new = {u \in FollowedBy(t, m, in) : u.run # "mark"}
    OBVIOUS
  <2> HIDE DEF new
  <2>5. /\ FollowedBy(t, m, in) \subseteq Task
        /\ \A u \in FollowedBy(t, m, in) : u.n = t.n /\ u.run \in {"deliver", "mark"}
        /\ \A u \in new : /\ u.run = "deliver" /\ u.m.left = m.left
                          /\ u.m.extra = 0 => u.m = m /\ ~(m.type = "unhandled" /\ m.history)
                          /\ u.m.history => u.m = m /\ u.m.type # "unhandled"
        /\ \A u, v \in new : Alike(u.m, v.m) => u = v
    BY <1>1, <2>2, <2>3, FollowedByType
  <2>6. Replaced(t, {rest} \cup new)
    <3>1. {rest} \cup new = {u \in {rest} \cup FollowedBy(t, m, in) : u.run # "mark"}
      BY <2>2
    <3>2. {rest} \cup FollowedBy(t, m, in) \subseteq Task
      BY <2>2, <2>5
    <3>3. \A u \in {rest} \cup FollowedBy(t, m, in) :
             u.n = t.n /\ u.run \in {"deliver", "history", "mark"}
      BY <2>2, <2>5
    <3> QED
      BY <1>1, <1>2, <2>1, <3>1, <3>2, <3>3, DoneReplaces
  <2> HIDE DEF f
  <2>7. Takes(t, {rest} \cup new)
    <3>1. UNCHANGED got /\ t.run = "history"
      BY <1>1, <1>2
    <3>2. \A u \in {rest} \cup new :
             \/ Rest(t, u)
             \/ /\ u.run = "deliver" /\ u.m.left = Len(t.in)
                /\ u.m.extra = 0 => u.m.history = f.history /\ ~f.dropped
                /\ u.m.history => u.m.type # "unhandled" /\ f.history
      BY <2>2, <2>3, <2>4, <2>5
    <3>3. \A u, v \in {rest} \cup new :
             u.run = v.run /\ (u.run = "deliver" => Alike(u.m, v.m)) => u = v
      BY <2>2, <2>5
    <3> QED
      BY <2>1, <2>3, <2>4, <3>1, <3>2, <3>3 DEF Takes
  <2> QED
    BY <1>1, <1>2, <2>6, <2>7 DEF Ends
<1> QED
  BY <1>3, <1>5, <1>6

\* The goroutines that set flags, of the bot or of the offline sync, or that
\* reject a call.
LEMMA OtherEnds ==
    ASSUME TypeInv,
           \/ \E t \in Running("verify") : OnConnected(t)
           \/ \E t \in Running("preview") : OnOfflineSyncPreview(t)
           \/ \E t \in Running("completed") : OnOfflineSyncCompleted(t)
           \/ \E t \in Running("call") : CallMessage(t) /\ ~t.m.history
    PROVE  \E t, N : Ends(t, N)
<1>1. \A run \in {"verify", "preview", "completed", "call"} : \A t \in Running(run) :
         t \in Work /\ t \in Task /\ t.run = run
  BY DEF Running, Work, TypeInv
<1>2. ASSUME NEW t \in Running("verify"), OnConnected(t) PROVE \E N : Ends(t, N)
  <2>1. Done(t, {}) /\ Alone /\ UNCHANGED <<flags, got, filed>> /\ Verifies(t)
    BY <1>1, <1>2 DEF OnConnected, effects, Verifies
  <2>2. GoesOn(t, {})
    BY <2>1 DEF GoesOn
  <2> QED
    BY <1>1, <2>1, <2>2, PlainEnds
<1>3. ASSUME NEW t \in Running("call"), CallMessage(t), ~t.m.history PROVE \E N : Ends(t, N)
  <2> DEFINE d == [t EXCEPT !.run = "deliver", !.m.type = "call"]
  <2>1. Done(t, {d}) /\ Alone /\ UNCHANGED <<flags, got, filed, bot>>
    BY <1>3 DEF CallMessage
  <2>2. d \in Task /\ d.n = t.n /\ d.run = "deliver" /\ ~d.m.history
    <3>1. t.m \in Msg /\ "call" \in Types /\ "deliver" \in Runs
      BY <1>1 DEF Task, Types, Runs
    <3> DEFINE called == [t.m EXCEPT !.type = "call"]
    <3>2. called \in Msg /\ called.history = t.m.history
      BY <3>1 DEF Msg
    <3>3. d = [t EXCEPT !.run = "deliver", !.m = called]
      BY <1>1 DEF Task
    <3> HIDE DEF d, called
    <3> QED
      BY <1>1, <1>3, <3>1, <3>2, <3>3 DEF Task
  <2> HIDE DEF d
  <2>3. GoesOn(t, {d})
    BY <1>1, <2>1, <2>2 DEF GoesOn, Single
  <2> QED
    BY <1>1, <2>1, <2>2, <2>3, PlainEnds
<1>4. ASSUME NEW run \in {"preview", "completed"}, NEW t \in Running(run),
             Flag(t, run = "preview")
      PROVE  \E N : Ends(t, N)
  <2> DEFINE d == SendDispatching(t)
  <2>0. t \in Work /\ t \in Task /\ t.run = run
    BY <1>1
  <2>1. Done(t, {d}) /\ Alone /\ UNCHANGED <<got, filed, bot>>
    BY <1>4 DEF Flag, effects
  <2>2. d \in Task /\ d.n = t.n /\ d.run = "deliver" /\ ~d.m.history
    <3>1. SystemMessage \in Msg /\ ~SystemMessage.history /\ "deliver" \in Runs
      BY BlankType DEF Runs, SystemMessage, Blank
    <3> QED
      BY <2>0, <3>1 DEF Task, SendDispatching
  <2> HIDE DEF d
  <2>3. GoesOn(t, {d})
    BY <1>1, <2>1, <2>2 DEF GoesOn, Single
  <2>4. Replaced(t, {d})
    <3>1. {d} = {u \in {d} : u.run # "mark"}
      BY <2>2
    <3> QED
      BY <1>1, <2>1, <2>2, <3>1, DoneReplaces
  <2>5. SetsFlags(t)
    BY <1>1, <1>4 DEF Flag, SetsFlags, Sets
  <2> QED
    BY <1>1, <2>1, <2>3, <2>4, <2>5 DEF Ends
<1>5. \A t : /\ OnOfflineSyncPreview(t) => Flag(t, "preview" = "preview")
             /\ OnOfflineSyncCompleted(t) => Flag(t, "completed" = "preview")
  BY DEF OnOfflineSyncPreview, OnOfflineSyncCompleted, Flag
<1> QED
  BY <1>2, <1>3, <1>4, <1>5

LEMMA ReceiptEnds ==
    ASSUME TypeInv, NEW t \in Running("receipt"), Receipt(t)
    PROVE  \E N : Ends(t, N)
<1> DEFINE m == [SystemMessage EXCEPT !.id = "readreceipt"]
<1>1. t \in Work /\ t \in Task /\ t.run = "receipt"
  BY DEF Running, Work, TypeInv
<1>2. m \in Msg /\ ~m.history
  <2>1. SystemMessage \in Msg /\ ~SystemMessage.history
    BY BlankType DEF SystemMessage, Blank
  <2> QED
    BY <2>1 DEF Msg
<1>3. Done(t, {}) /\ Trigger(t, m) /\ Alone /\ UNCHANGED <<flags, filed, bot>>
  BY DEF Receipt
<1> HIDE DEF m
<1>4. Replaced(t, {})
  <2>1. {} = {u \in {} : u.run # "mark"}
    OBVIOUS
  <2> QED
    BY <1>1, <1>3, <2>1, DoneReplaces
<1>5. Gives(t, {})
  BY <1>1, <1>2, <1>3, TriggerGives DEF Gives
<1> QED
  BY <1>1, <1>3, <1>4, <1>5 DEF Ends

LEMMA DeliverEnds ==
    ASSUME TypeInv, NEW t \in Running("deliver"), Deliver(t)
    PROVE  \E N : Ends(t, N)
<1>1. t \in Work /\ t \in Task /\ t.run = "deliver" /\ t.m \in Msg /\ t \in tasks
  BY DEF Running, Work, TypeInv, Task
<1>2. Alone /\ UNCHANGED <<flags, filed, bot>>
  BY DEF Deliver
<1>3. Renamed(t.m) \in Msg /\ Alike(Renamed(t.m), t.m) /\ Renamed(t.m).type = t.m.type
        /\ Renamed(t.m).history = t.m.history
  BY <1>1 DEF Renamed, Msg, Alike
<1>4. CASE Done(t, {}) /\ UNCHANGED got
  <2>1. GoesOn(t, {})
    BY <1>2, <1>4 DEF GoesOn
  <2> QED
    BY <1>1, <1>2, <1>4, <2>1, PlainEnds
<1>5. ASSUME Replaced(t, {}), NEW m \in {t.m, Renamed(t.m)}, Trigger(t, m)
      PROVE  \E N : Ends(t, N)
  <2>1. m \in Msg /\ Alike(m, t.m) /\ m.type = t.m.type /\ m.history = t.m.history
    BY <1>1, <1>3 DEF Alike
  <2>2. Gives(t, {})
    BY <1>1, <1>2, <1>5, <2>1, TriggerGives DEF Gives
  <2> QED
    BY <1>1, <1>2, <1>5, <2>2 DEF Ends
<1>6. CASE Done(t, {}) /\ Trigger(t, t.m)
  <2>1. {} = {u \in {} : u.run # "mark"}
    OBVIOUS
  <2>2. Replaced(t, {})
    BY <1>1, <1>2, <1>6, <2>1, DoneReplaces
  <2> QED
    BY <1>5, <1>6, <2>2
<1>7. CASE t.m.type = "unhandled" /\ ~Skipped(t.m)
  <2> DEFINE own(u) == u.run = "mark" /\ u.n = t.n /\ u.m = t.m
             after(u) == IF own(u) THEN [u EXCEPT !.m = Renamed(t.m)] ELSE u
  <2>1. tasks' = {after(u) : u \in tasks \ {t}} /\ Trigger(t, Renamed(t.m))
    BY <1>7 DEF Deliver
  <2>2. \A u \in tasks : /\ after(u) \in Task /\ after(u).n = u.n /\ after(u).run = u.run
                         /\ u.run # "mark" => after(u) = u
    BY <1>3 DEF TypeInv, Task
  <2> HIDE DEF after
  <2>3. Work' = Work \ {t}
    BY <1>1, <2>1, <2>2 DEF Work
  <2>4. tasks' \subseteq Task /\ \A u \in tasks' : u.n \in 1..sent
    BY <2>1, <2>2 DEF TypeInv
  <2>5. Replaced(t, {})
    BY <1>1, <1>2, <2>3, <2>4 DEF Replaced, Alone
  <2> QED
    BY <1>5, <2>1, <2>5
<1>8. CASE ~(t.m.type = "unhandled" /\ ~Skipped(t.m))
  BY <1>4, <1>6, <1>8 DEF Deliver
<1> QED
  BY <1>7, <1>8

(***************************************************************************)
(* What is not said of what is to come leaves the invariant.               *)
(***************************************************************************)
LEMMA OthersKeepInv ==
    ASSUME Inv, RegistryInv',
           UNCHANGED <<server, flags, token, bot, filed, got, scene>>,
           Work' = Work, tasks' \subseteq tasks
    PROVE  Inv'
<1>1. UNCHANGED <<link, sent, started, completed, applied, overtaken, token, verified, late,
                  filed, got, scene>>
  BY DEF server, flags, bot
<1>2. TypeInv' /\ LogoutInv' /\ FiledInv'
  BY <1>1 DEF Inv, TypeInv, LogoutInv, FiledInv, Syncing
<1>3. FlagInv'
  <2>1. FlagTasks' = FlagTasks
    BY DEF FlagTasks
  <2>2. \A k \in Nat : \A s : Foreseen(k, s) => Foreseen(k, s)'
    BY <1>1, <2>1 DEF Foreseen, Sets
  <2>3. \A t \in Work' : t.run = "message" => Foreseen(t.n, t.during)'
    BY <2>2 DEF Inv, FlagInv, TypeInv, Work
  <2>4. Up' => Foreseen(sent + 1, link \in Syncing)'
    BY <1>1, <2>1 DEF Inv, FlagInv, Foreseen, Sets, Up, Syncing
  <2> QED
    BY <1>1, <2>1, <2>3, <2>4 DEF Inv, FlagInv
<1>4. EventInv'
  <2>1. \A k : /\ Deliveries(k)' = Deliveries(k) /\ FiledOf(k)' = FiledOf(k)
               /\ Copies(k)' = Copies(k)
    BY <1>1 DEF Deliveries, FiledOf, Copies
  <2>2. SingleInv' /\ BatchInv' /\ VerifyInv' /\ DeliverInv'
    BY <2>1 DEF Inv, EventInv, SingleInv, BatchInv, VerifyInv, DeliverInv
  <2>3. GotInv'
    BY <1>1, <2>1 DEF Inv, EventInv, GotInv
  <2> QED
    BY <2>2, <2>3 DEF EventInv
<1> QED
  BY <1>2, <1>3, <1>4 DEF Inv

LEMMA RegistrationKeepsInv == Inv /\ Registration => Inv'
<1> SUFFICES ASSUME Inv, Registration PROVE Inv'
  OBVIOUS
<1>1. CASE Clear
  <2>1. UNCHANGED <<server, flags, token, bot, filed, got, scene, tasks>> /\ aeh' = 0
    BY <1>1 DEF Clear, effects
  <2>2. RegistryInv'
    BY <2>1 DEF Inv, RegistryInv
  <2>3. Work' = Work /\ tasks' \subseteq tasks
    BY <2>1 DEF Work
  <2> QED
    BY <2>1, <2>2, <2>3, OthersKeepInv
<1>2. ASSUME NEW a \in here.attachers, FindUnattached(a) \/ Register(a)
      PROVE  Inv'
  <2>1. UNCHANGED <<server, flags, token, bot, filed, got, scene, tasks>>
    BY <1>2 DEF FindUnattached, Register, Others, effects
  <2>2. RegistryInv'
    <3>1. CASE FindUnattached(a)
      BY <3>1 DEF Inv, RegistryInv, FindUnattached
    <3>2. CASE Register(a)
      BY <3>2 DEF Inv, RegistryInv, Register
    <3> QED
      BY <1>2, <3>1, <3>2
  <2>3. Work' = Work /\ tasks' \subseteq tasks
    BY <2>1 DEF Work
  <2> QED
    BY <2>1, <2>2, <2>3, OthersKeepInv
<1> QED
  BY <1>1, <1>2 DEF Registration

LEMMA GoroutineKeepsInv == Inv /\ Goroutine => Inv'
<1> SUFFICES ASSUME Inv, Goroutine PROVE Inv'
  OBVIOUS
<1>1. TypeInv /\ FlagInv /\ RegistryInv
  BY DEF Inv
<1>2. ASSUME NEW t \in Running("call"), CallMessage(t) PROVE ~t.m.history
  <2>1. t \in Work /\ t.run = "call"
    BY DEF Running, Work
  <2> QED
    BY <2>1 DEF Inv, EventInv, SingleInv, Single
<1>3. ASSUME NEW t \in Running("mark"), MarkRead(t) PROVE Inv'
  <2>1. UNCHANGED <<server, flags, token, bot, filed, got, scene, registry>>
    BY <1>3 DEF MarkRead, Alone
  <2>2. Work' = Work /\ tasks' \subseteq tasks
    BY <1>3 DEF MarkRead, Done, Work, Running
  <2>3. RegistryInv'
    BY <1>1, <2>1 DEF RegistryInv, registry
  <2> QED
    BY <2>1, <2>2, <2>3, OthersKeepInv
<1>4. CASE ~ \E t \in Running("mark") : MarkRead(t)
  <2>1. \E t, N : Ends(t, N)
    BY <1>1, <1>2, <1>4, OtherEnds, MessageEnds, HistoryEnds, DeliverEnds, ReceiptEnds
       DEF Goroutine
  <2> QED
    BY <2>1, EndKeepsInv
<1> QED
  BY <1>3, <1>4

LEMMA StutterKeepsInv == Inv /\ UNCHANGED vars => Inv'
<1> SUFFICES ASSUME Inv, UNCHANGED vars PROVE Inv'
  OBVIOUS
<1>1. UNCHANGED <<server, flags, token, bot, filed, got, scene, registry, tasks>>
  BY DEF vars, effects
<1>2. Work' = Work /\ tasks' \subseteq tasks
  BY <1>1 DEF Work
<1>3. RegistryInv'
  BY <1>1 DEF Inv, RegistryInv, registry
<1> QED
  BY <1>1, <1>2, <1>3, OthersKeepInv

THEOREM Invariance == Spec => []Inv
<1>1. Inv /\ [Next]_vars => Inv'
  BY ArrivalKeepsInv, GoroutineKeepsInv, RegistrationKeepsInv, StutterKeepsInv DEF Next
<1> QED
  BY InitInv, <1>1, PTL DEF Spec

(***************************************************************************)
(* What follows.                                                           *)
(***************************************************************************)

(* isHistoryMessage (whatsmeow_handlers.go:933), whatever comes in and in  *)
(* whatever order the goroutines run: a message is taken for history or    *)
(* not rightly, if its goroutine runs on the same side of the events of    *)
(* the offline sync as it came in; and the flags say what the server is at *)
(* when the goroutines that set them have all run, in order.               *)
THEOREM HistoryIsRight == Spec => []HistoryIsExact
<1>1. Inv => HistoryIsExact
  <2> SUFFICES ASSUME Inv PROVE HistoryIsExact
    OBVIOUS
  <2>1. \A f \in filed : /\ f.from = "history" => f.history
                         /\ f.from = "live" /\ f.inOrder => f.history = f.during
    BY DEF Inv, FiledInv
  <2>2. ASSUME Running("preview") \cup Running("completed") = {}, ~overtaken, Up
        PROVE  (started /\ ~completed) <=> link \in Syncing
    <3>1. FlagTasks = {} /\ applied < sent + 1
      BY <2>2 DEF Inv, TypeInv, FlagTasks, Work, Running
    <3>2. Foreseen(sent + 1, link \in Syncing)
      BY <2>2 DEF Inv, FlagInv
    <3> QED
      BY <2>2, <3>1, <3>2 DEF Foreseen
  <2> QED
    BY <2>1, <2>2 DEF HistoryIsExact
<1> QED
  BY <1>1, Invariance, PTL

(* DetermineRoutingKey (qp_dispatching.go:373), for any messages, batches  *)
(* and options: the queue of history holds the messages that were taken    *)
(* for history and no other, and nobody is given a dropped one.            *)
THEOREM HistoryHasItsQueue == Spec => []HistoryStaysApart
<1>1. Inv => HistoryStaysApart
  <2>1. Inv => GotInv
    BY DEF Inv, EventInv
  <2> QED
    BY <2>1 DEF GotInv, HistoryStaysApart, Copies, FiledOf
<1> QED
  BY <1>1, Invariance, PTL

(* Trigger (dispatching_handler.go:215): however many requests find the    *)
(* bot without its dispatching handler at a time, and however often it is  *)
(* removed, it is given each message once.                                 *)
THEOREM GivenOnce == Spec => []OncePerMessage
<1>1. Inv => OncePerMessage
  <2> SUFFICES ASSUME Inv, NEW g \in got, NEW h \in got, [g EXCEPT !.by = h.by] = h
               PROVE  g = h
    BY DEF OncePerMessage
  <2>1. g.n = h.n /\ Alike(g, h)
    BY DEF Alike, Inv, TypeInv, IsCopy
  <2> QED
    BY <2>1 DEF Inv, EventInv, GotInv
<1> QED
  BY <1>1, Invariance, PTL

(* LoggedOut (dispatching_handler.go:132): a bot that is logged out stays  *)
(* unverified whatever goroutines are still to run, but for that of        *)
(* OnConnected.                                                            *)
THEOREM LogOutHolds == Spec => []LoggedOutIsUnverified
<1>1. Inv => LoggedOutIsUnverified
  BY DEF Inv, LogoutInv, LoggedOutIsUnverified
<1> QED
  BY <1>1, Invariance, PTL
=============================================================================
