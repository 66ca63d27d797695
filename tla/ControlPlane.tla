---------------------------- MODULE ControlPlane ----------------------------
(***************************************************************************)
(* The service of bots (src/src/models/qp_whatsapp_service.go), the table  *)
(* of bots behind it, and everything that asks for them: the HTTP API, the *)
(* web forms, the tools of MCP, the pairing of a phone and the start of    *)
(* the program.  A request is the sequence of steps its handler has in     *)
(* Routes; requests run concurrently and nothing locks the map of bots.    *)
(* An object of a bot is known by a number: two objects may exist for one  *)
(* token, and only the map says which one is registered.  A connection is  *)
(* the number of its creation.  Starting and stopping one bot are taken    *)
(* here as one step (WhatsappServer splits them).                          *)
(***************************************************************************)
EXTENDS Routes, FiniteSets, Functions

CONSTANTS
    Tokens, Stored,     \* tokens of bots; those of the table at the start
    Procs,              \* goroutines that serve requests
    None,               \* no row, no token
    RoutesOf,           \* the routes a goroutine is asked for
    MaxRequests, MaxConns   \* bounds: requests begun, connections made

ASSUME ControlAssumption ==
    /\ IsFiniteSet(Tokens) /\ Stored \subseteq Tokens
    /\ None \notin Tokens \cup [wid : Nat, conf : 0..1]
    /\ MaxRequests \in Nat /\ MaxConns \in Nat

VARIABLES
    rows,       \* table servers: the wid and the configuration of a token
    bots,       \* QPWhatsappService.Servers: the object of a token, or 0
    heap,       \* objects of bots
    conns,      \* connections not disposed of; up: those that are connected
    up,
    pairing,    \* connections that wait for a phone, with the token asked for
    starting,   \* objects the start of the program has not initialised yet
    th,         \* the request each goroutine serves
    made, begun,    \* connections created, requests begun
    clash,      \* history: tokens made or deleted while another used them
    unsaved,    \* history: tokens whose last Save failed
    replaced    \* history: connections a pairing has taken from a bot

vars == <<rows, bots, heap, conns, up, pairing, starting, th, made, begun,
          clash, unsaved, replaced>>

(* Steps that read the request, or the user it names, and may refuse it.   *)
Inputs == {"body", "title", "length", "participants", "group", "name", "url",
    "size", "action", "chat", "endpoint", "phone", "lid", "suffix",
    "phone or lid", "list", "jids", "poll", "type", "attachment", "text",
    "content", "master", "id", "user", "method", "password", "strength",
    "connection string", "key", "cookie", "upgrade", "upload", "email and password",
    "email", "confirmation", "absent", "enabled", "bearer", "json",
    "parameters", "tool", "arguments", "token", "timestamp", "message"}

(* Steps that ask something else: they may fail, and leave the bots alone. *)
Asks == {"download", "store", "post", "dispatching", "account", "stored", "code",
    "parse", "query"}

(* Steps that cannot fail, or whose failure is ignored.                    *)
Silent == {"cancel", "append", "convert", "all", "names"}

(* Steps that read through the field of the client; the failure of some is *)
(* ignored.                                                                *)
Reads == {"read", "digit 9", "sync", "pairs"}
ReadsThatFail == {"read", "digit 9"}

(* Steps that make or delete a bot, and all those that change one.         *)
MakesOrDeletes == {"settle", "pair", "logout", "clear", "delete", "forget"}
Writes == MakesOrDeletes
          \cup {"set", "toggle", "exists", "write", "start", "stop", "switch"}

(* The order all handlers keep.  A bot is looked up only to be settled, is *)
(* saved at once when it has been changed, and the steps of a deletion     *)
(* come one after the other: each of these steps follows, and is followed  *)
(* by, nothing else.  What uses a bot comes after it has been found, what  *)
(* uses a connection after it was taken; a request that has tested a bot,  *)
(* or taken its connection, keeps to it and does not stop it itself; and   *)
(* who serves with any bot that is ready does not change it.  What can     *)
(* refuse a request is asked before anything is sent or changed.           *)
Follows == [lookup |-> "settle", settle |-> "exists", set |-> "exists",
            toggle |-> "exists", pair |-> "exists", exists |-> "write",
            logout |-> "clear", clear |-> "delete", delete |-> "forget"]
Finds == {"bot", "first", "settle", "pair"}
UsesBot == {"ready", "connection", "raw", "cast", "each", "set", "toggle", "exists", "write",
            "logout", "clear", "delete", "forget", "start", "stop", "switch"}
Takes == {"connection", "raw", "cast"}
UsesConn == Reads \cup {"call"}
Rebinds == {"bot", "first", "lookup", "settle", "logout", "stop", "switch"}
Tests == Inputs \cup {"bot", "first", "ready", "connection", "set", "settle"}
Marks == {"request", "call", "each", "set", "settle", "toggle", "write", "logout"}

(* All the steps there are.                                                *)
Steps == Inputs \cup Asks \cup Silent \cup Reads \cup Writes \cup Finds \cup Takes
         \cup {"lookup", "ready", "client", "request", "call", "each",
              "new connection", "new page"}

Chained(s) == \A i \in DOMAIN s :
    /\ s[i] \in DOMAIN Follows => i < Len(s) /\ s[i + 1] = Follows[s[i]]
    /\ s[i] \in {"write", "forget"} => i = Len(s)
    /\ i > 1 /\ s[i] \in Range(Follows) =>
          s[i - 1] \in DOMAIN Follows /\ Follows[s[i - 1]] = s[i]

NeverAfter(s, first, later) ==
    \A i, j \in DOMAIN s : i < j /\ s[i] \in first => s[j] \notin later
Preceded(s, later, first) ==
    \A j \in DOMAIN s : s[j] \in later => \E i \in 1..(j - 1) : s[i] \in first

Orderly(s) ==
    /\ Chained(s)
    /\ NeverAfter(s, Takes \cup {"ready"}, Rebinds)
    /\ NeverAfter(s, {"first"}, Writes)

ASSUME RoutesAssumption ==
    \A p \in Procs : \A route \in RoutesOf[p] :
        /\ route \in Seq(Steps) /\ Orderly(route)
        /\ Preceded(route, UsesBot, Finds) /\ Preceded(route, UsesConn, Takes)
        /\ NeverAfter(route, Marks, Tests)
        /\ \A i \in DOMAIN route : route[i] # "pair"
        /\ route # <<>> => route[1] \notin Range(Follows)

Idle == [todo |-> <<>>, token |-> None, bot |-> 0, conn |-> 0, found |-> FALSE,
         created |-> FALSE, ready |-> FALSE, torn |-> FALSE, did |-> FALSE,
         answer |-> "none"]
Answers == {"none", "done", "refused", "failed", "panic"}

TypeOK ==
    /\ rows \in [Tokens -> [wid : Nat, conf : 0..1] \cup {None}]
    /\ bots \in [Tokens -> {0} \cup DOMAIN heap]
    /\ \A o \in DOMAIN heap : heap[o].conn \in 0..made
    /\ up \subseteq conns /\ conns \subseteq 1..made
    /\ DOMAIN pairing \subseteq conns
    /\ clash \cup unsaved \subseteq Tokens /\ starting \subseteq DOMAIN heap
    /\ \A p \in Procs : th[p].answer \in Answers
    /\ begun \in 0..MaxRequests

-----------------------------------------------------------------------------
(* The start of the program: an object for each row, to be initialised in  *)
(* a goroutine of its own.  Nothing else outlives a crash.                 *)

Loaded(r) == [t \in Tokens |->
    IF r[t] = None THEN 0
    ELSE 1 + Cardinality({u \in Tokens : r[u] # None /\ r[u].wid < r[t].wid})]

HeapOf(r) == [o \in {Loaded(r)[t] : t \in Tokens} \ {0} |->
    LET t == CHOOSE u \in Tokens : Loaded(r)[u] = o
    IN [token |-> t, wid |-> r[t].wid, conf |-> r[t].conf, conn |-> 0]]

(* The phones of the bots of the table, which are unique in it.            *)
Phones == (MaxConns + 1)..(MaxConns + Cardinality(Stored))

Init ==
    /\ \E wid \in Injection(Stored, Phones) :
           rows = [t \in Tokens |->
                     IF t \in Stored THEN [wid |-> wid[t], conf |-> 0] ELSE None]
    /\ bots = Loaded(rows) /\ heap = HeapOf(rows) /\ starting = DOMAIN heap
    /\ conns = {} /\ up = {} /\ pairing = <<>> /\ made = 0 /\ begun = 0
    /\ th = [p \in Procs |-> Idle]
    /\ clash = {} /\ unsaved = {} /\ replaced = {}

Reboot ==
    /\ starting = {}
    /\ bots' = Loaded(rows) /\ heap' = HeapOf(rows)
    /\ starting' = DOMAIN HeapOf(rows)
    /\ conns' = {} /\ up' = {} /\ pairing' = <<>>
    /\ th' = [p \in Procs |-> Idle]
    /\ clash' = {} /\ unsaved' = {} /\ replaced' = {}
    /\ UNCHANGED <<rows, made, begun>>

-----------------------------------------------------------------------------
(* A request.                                                              *)

Busy(p) == th[p].todo # <<>>
At(p, step) == Busy(p) /\ Head(th[p].todo) = step
Ahead(p) == Range(th[p].todo)
Free(b) == heap[b].conn = 0
Registered(t) == bots[t] # 0

(* What is left of a request that has been answered.                       *)
Answered(r, a) == [Idle EXCEPT !.answer = a, !.did = r.did, !.ready = r.ready, !.torn = r.torn]
Pop(r) == IF Len(r.todo) = 1 THEN Answered(r, "done") ELSE [r EXCEPT !.todo = Tail(@)]

Set(p, r) == th' = [th EXCEPT ![p] = r]
Answer(p, a) == Set(p, Answered(th[p], a))
Next1(p) == Set(p, Pop(th[p]))

(* Others that use a bot whose connection goes away are torn.              *)
Tear(p, r, b) == th' = [q \in Procs |->
    IF q = p THEN r ELSE IF th[q].bot = b /\ b # 0 THEN [th[q] EXCEPT !.torn = TRUE] ELSE th[q]]

(* A bot is made or deleted while another request changes it.              *)
Uses(q, t) == th[q].token = t /\ (th[q].bot # 0 \/ At(q, "settle") \/ At(q, "pair"))
Makes(q, t) == Uses(q, t) /\ (Ahead(q) \cap MakesOrDeletes # {} \/ th[q].created)
Changes(q, t) == Uses(q, t) /\ Ahead(q) \cap Writes # {}
Join(p, steps, t) ==
    clash' = IF \E q \in Procs \ {p} :
                    \/ steps \cap MakesOrDeletes # {} /\ Changes(q, t)
                    \/ steps \cap Writes # {} /\ Makes(q, t)
             THEN clash \cup {t} ELSE clash

(* An object that is not there yet.                                        *)
Fresh == CHOOSE o \in 1..(Cardinality(DOMAIN heap) + 1) : o \notin DOMAIN heap

requests == <<rows, bots, heap, conns, up, pairing, starting, made, clash, unsaved, replaced>>
storage == <<rows, bots, heap>>
sessions == <<conns, up, pairing, made, replaced>>
control == <<starting, begun>>
history == <<clash, unsaved>>

Begin(p, route, t) ==
    /\ ~Busy(p) /\ begun < MaxRequests
    /\ begun' = begun + 1
    /\ Set(p, IF route = <<>> THEN Answered(Idle, "done")
              ELSE [Idle EXCEPT !.todo = route, !.token = t])
    /\ UNCHANGED requests

(* Consecutive steps that only read the request are taken in one.          *)
CheckInputs(p) ==
    /\ Busy(p) /\ Head(th[p].todo) \in Inputs
    /\ \/ \E n \in 1..Len(th[p].todo) :
              /\ \A i \in 1..n : th[p].todo[i] \in Inputs
              /\ n < Len(th[p].todo) => th[p].todo[n + 1] \notin Inputs
              /\ Set(p, IF n = Len(th[p].todo) THEN Answered(th[p], "done")
                        ELSE [th[p] EXCEPT !.todo = SubSeq(@, n + 1, Len(@))])
       \/ Answer(p, "refused")
    /\ UNCHANGED <<requests, begun>>

Ask(p) ==
    /\ Busy(p) /\ Head(th[p].todo) \in Asks \cup Silent
    /\ Next1(p) \/ (Head(th[p].todo) \in Asks /\ Answer(p, "failed"))
    /\ UNCHANGED <<requests, begun>>

(* GetServer.                                                              *)
Bot(p) ==
    /\ At(p, "bot")
    /\ LET t == th[p].token
       IN IF Registered(t)
          THEN Set(p, Pop([th[p] EXCEPT !.bot = bots[t]])) /\ Join(p, Ahead(p), t)
          ELSE Answer(p, "refused") /\ UNCHANGED clash
    /\ UNCHANGED <<storage, sessions, control, unsaved>>

(* GetServerFirstAvailable: any bot that is ready.                         *)
First(p) ==
    /\ At(p, "first")
    /\ \/ \E t \in Tokens :
            /\ Registered(t) /\ heap[bots[t]].conn \in up
            /\ Set(p, Pop([th[p] EXCEPT !.token = t, !.bot = bots[t]]))
       \/ /\ \A t \in Tokens : Registered(t) => heap[bots[t]].conn \notin up
          /\ Answer(p, "refused")
    /\ UNCHANGED <<requests, begun>>

Ready_Unchecked(p) ==
    /\ At(p, "ready")
    /\ Set(p, Pop([th[p] EXCEPT !.ready = TRUE]))
    /\ UNCHANGED <<requests, begun>>

(* A request is refused unless the bot is ready.                           *)
Ready(p) ==
    /\ At(p, "ready")
    /\ IF heap[th[p].bot].conn \in up
       THEN Set(p, Pop([th[p] EXCEPT !.ready = TRUE]))
       ELSE Answer(p, "refused")
    /\ UNCHANGED <<requests, begun>>

(* GetValidConnection.                                                     *)
Connection(p) ==
    /\ At(p, "connection")
    /\ IF Free(th[p].bot) THEN Answer(p, "refused")
       ELSE Set(p, Pop([th[p] EXCEPT !.conn = heap[th[p].bot].conn]))
    /\ UNCHANGED <<requests, begun>>

(* A manager holds the client of its connection from here on.              *)
Client(p) ==
    /\ At(p, "client")
    /\ IF th[p].conn \in conns THEN Next1(p) ELSE Answer(p, "failed")
    /\ UNCHANGED <<requests, begun>>

(* A change asked of the client that is held: at worst it is no longer     *)
(* connected.                                                              *)
Request(p) ==
    /\ At(p, "request")
    /\ \/ th[p].conn \in conns /\ Set(p, Pop([th[p] EXCEPT !.did = TRUE]))
       \/ Answer(p, "failed")
    /\ UNCHANGED <<requests, begun>>

Read(p) ==
    /\ Busy(p) /\ Head(th[p].todo) \in Reads
    /\ \/ th[p].conn \in conns /\ Next1(p)
       \/ IF Head(th[p].todo) \in ReadsThatFail THEN Answer(p, "failed")
          ELSE th[p].conn \notin conns /\ Next1(p)
       \/ th[p].conn \notin conns /\ Answer(p, "panic")
    /\ UNCHANGED <<requests, begun>>

(* The connection is used, or cast, without that question.                 *)
Raw(p) ==
    /\ At(p, "raw") \/ At(p, "cast")
    /\ IF Free(th[p].bot) THEN Answer(p, "panic")
       ELSE Set(p, Pop([th[p] EXCEPT !.conn = heap[th[p].bot].conn]))
    /\ UNCHANGED <<requests, begun>>

(* A call on a connection that has dropped its client has no client to     *)
(* use.                                                                    *)
Call(p) ==
    /\ At(p, "call")
    /\ \/ th[p].conn \in conns /\ Set(p, Pop([th[p] EXCEPT !.did = TRUE]))
       \/ Answer(p, "failed")
       \/ th[p].conn \notin conns /\ Answer(p, "panic")
    /\ UNCHANGED <<requests, begun>>

(* MarkRead and RevokeByPrefix: every message is tried.                    *)
Each(p) ==
    /\ At(p, "each")
    /\ IF Free(th[p].bot) THEN Answer(p, "panic") \/ Answer(p, "failed") \/ Next1(p)
       ELSE \/ \E d \in BOOLEAN : Set(p, Pop([th[p] EXCEPT !.did = d]))
            \/ \E d \in BOOLEAN : Set(p, Answered([th[p] EXCEPT !.did = d], "failed"))
    /\ UNCHANGED <<requests, begun>>

-----------------------------------------------------------------------------
(* Changing a bot and saving it.                                           *)

Mark(p, r) == Set(p, Pop([r EXCEPT !.did = TRUE]))
Configure(b, new) == heap' = [heap EXCEPT ![b].conf = new]

(* InformationPostRequest: the bot of exactly that token, if there is one. *)
Lookup(p) ==
    /\ At(p, "lookup")
    /\ Set(p, Pop([th[p] EXCEPT !.bot = bots[th[p].token]]))
    /\ Join(p, Ahead(p), th[p].token)
    /\ UNCHANGED <<storage, sessions, control, unsaved>>

(* updateServerConfiguration: without a change there is nothing to save.   *)
Update_RefusesLate(p) ==
    LET set == Configure(th[p].bot, 1 - heap[th[p].bot].conf)
    IN /\ At(p, "set") \/ (At(p, "settle") /\ th[p].bot # 0)
       /\ \/ set /\ Mark(p, th[p])
          \/ Answer(p, "done") /\ UNCHANGED heap
          \/ set /\ Set(p, Answered([th[p] EXCEPT !.did = TRUE], "refused"))
       /\ UNCHANGED <<rows, bots, sessions, control, history>>

Update(p) ==
    /\ At(p, "set") \/ (At(p, "settle") /\ th[p].bot # 0)
    /\ \/ Configure(th[p].bot, 1 - heap[th[p].bot].conf) /\ Mark(p, th[p])
       \/ Answer(p, "done") /\ UNCHANGED heap
       \/ Answer(p, "refused") /\ UNCHANGED heap
    /\ UNCHANGED <<rows, bots, sessions, control, history>>

(* AppendNewServer: the map is asked once more, and a bot that has come in *)
(* between is given the new information, which has no wid.                 *)
Create(p) ==
    LET t == th[p].token
        o == Fresh
        info(c) == [token |-> t, wid |-> 0, conf |-> 0, conn |-> c]
        b == IF Registered(t) THEN bots[t] ELSE o
    IN /\ At(p, "settle") /\ th[p].bot = 0
       /\ IF Registered(t)
          THEN heap' = [heap EXCEPT ![b] = info(heap[b].conn)] /\ UNCHANGED bots
          ELSE /\ heap' = [x \in DOMAIN heap \cup {o} |-> IF x = o THEN info(0) ELSE heap[x]]
               /\ bots' = [bots EXCEPT ![t] = o]
       /\ Mark(p, [th[p] EXCEPT !.bot = b, !.created = TRUE])
       /\ UNCHANGED <<rows, sessions, control, history>>

(* A toggle always changes the configuration.                              *)
Toggle(p) ==
    /\ At(p, "toggle")
    /\ Configure(th[p].bot, 1 - heap[th[p].bot].conf)
    /\ Mark(p, th[p])
    /\ UNCHANGED <<rows, bots, sessions, control, history>>

(* A bot just made by a request is taken out of the map again, whichever   *)
(* object is there by now.                                                 *)
SaveFails_KeepsBot(p) ==
    /\ Answer(p, "failed") /\ UNCHANGED bots
    /\ unsaved' = IF th[p].created THEN unsaved ELSE unsaved \cup {th[p].token}

SaveFails(p) ==
    LET t == th[p].token
    IN /\ Answer(p, "failed")
       /\ IF th[p].created THEN bots' = [bots EXCEPT ![t] = 0] /\ UNCHANGED unsaved
          ELSE unsaved' = unsaved \cup {t} /\ UNCHANGED bots

(* Save: is there a row, then an update of it or a new one.  An update of  *)
(* a row that has gone changes nothing and is no error; a new row must     *)
(* have a token and a wid of its own, and bots without a phone share the   *)
(* empty wid.                                                              *)
Exists(p) ==
    /\ At(p, "exists")
    /\ \/ Set(p, Pop([th[p] EXCEPT !.found = (rows[th[p].token] # None)]))
          /\ UNCHANGED <<bots, unsaved>>
       \/ SaveFails(p)
    /\ UNCHANGED <<rows, heap, sessions, control, clash>>

Taken(t, w) == \E u \in Tokens \ {t} : rows[u] # None /\ rows[u].wid = w

Write(p) ==
    LET t == th[p].token
        b == heap[th[p].bot]
    IN /\ At(p, "write")
       /\ \/ /\ ~Taken(t, b.wid)
             /\ th[p].found \/ rows[t] = None
             /\ rows' = IF th[p].found /\ rows[t] = None THEN rows
                        ELSE [rows EXCEPT ![t] = [wid |-> b.wid, conf |-> b.conf]]
             /\ unsaved' = IF bots[t] = th[p].bot THEN unsaved \ {t} ELSE unsaved
             /\ Mark(p, th[p]) /\ UNCHANGED bots
          \/ SaveFails(p) /\ UNCHANGED rows
       /\ UNCHANGED <<heap, sessions, control, clash>>

-----------------------------------------------------------------------------
(* Deleting a bot: its connection, its dispatchings, its row, and the      *)
(* entry of its token in the map.  A step that fails ends the request.     *)

Logout(p) ==
    LET b == th[p].bot
        c == heap[b].conn
    IN /\ At(p, "logout")
       /\ \/ /\ heap' = [heap EXCEPT ![b].conn = 0]
             /\ conns' = conns \ {c} /\ up' = up \ {c}
             /\ Tear(p, Pop([th[p] EXCEPT !.did = TRUE]), b)
          \/ c # 0 /\ Answer(p, "failed") /\ UNCHANGED <<heap, conns, up>>
       /\ UNCHANGED <<rows, bots, pairing, made, replaced, control, history>>

Clear(p) ==
    /\ At(p, "clear")
    /\ Next1(p) \/ Answer(p, "failed")
    /\ UNCHANGED <<requests, begun>>

DeleteRow(p) ==
    /\ At(p, "delete")
    /\ \/ rows' = [rows EXCEPT ![th[p].token] = None] /\ Next1(p)
       \/ Answer(p, "failed") /\ UNCHANGED rows
    /\ UNCHANGED <<bots, heap, sessions, control, history>>

Forget(p) ==
    /\ At(p, "forget")
    /\ bots' = [bots EXCEPT ![th[p].token] = 0]
    /\ unsaved' = unsaved \ {th[p].token}
    /\ Next1(p)
    /\ UNCHANGED <<rows, heap, sessions, control, clash>>

-----------------------------------------------------------------------------
(* Starting and stopping a bot.                                            *)

(* A bot without a connection is given one; it is dialled.  A connection   *)
(* that does not come up stays where it is.                                *)
Connect(p, b) ==
    LET c == IF Free(b) THEN made + 1 ELSE heap[b].conn
    IN /\ heap[b].conn \notin up /\ c <= MaxConns
       /\ heap' = [heap EXCEPT ![b].conn = c]
       /\ made' = IF Free(b) THEN made + 1 ELSE made
       /\ conns' = conns \cup {c}
       /\ \/ up' = up \cup {c} /\ Next1(p)
          \/ up' = up /\ Answer(p, "failed")
       /\ UNCHANGED <<pairing, replaced>>

Disconnect_KeepsClient(p, b) ==
    LET c == heap[b].conn
    IN /\ heap' = IF c \in up THEN [heap EXCEPT ![b].conn = 0] ELSE heap
       /\ Next1(p)
       /\ UNCHANGED sessions

Disconnect(p, b) ==
    LET c == heap[b].conn
    IN /\ IF c \in up
          THEN /\ heap' = [heap EXCEPT ![b].conn = 0]
               /\ conns' = conns \ {c} /\ up' = up \ {c}
               /\ Tear(p, Pop(th[p]), b)
          ELSE Next1(p) /\ UNCHANGED <<heap, conns, up>>
       /\ UNCHANGED <<pairing, made, replaced>>

Start(p) ==
    LET b == th[p].bot
    IN /\ At(p, "start") \/ (At(p, "switch") /\ heap[b].conn \notin up)
       /\ \/ Connect(p, b)
          \/ Answer(p, "failed") /\ UNCHANGED <<heap, sessions>>
       /\ UNCHANGED <<rows, bots, control, history>>

Stop(p) ==
    /\ At(p, "stop") \/ (At(p, "switch") /\ heap[th[p].bot].conn \in up)
    /\ Disconnect(p, th[p].bot)
    /\ UNCHANGED <<rows, bots, control, history>>

(* QPWhatsappService.Initialize starts the object of every row, which may  *)
(* have been deleted when its goroutine gets to run.                       *)
Initialize(p) ==
    \E o \in starting :
        LET t == heap[o].token
        IN /\ ~Busy(p) /\ starting' = starting \ {o}
           /\ Set(p, [Idle EXCEPT !.todo = <<"start">>, !.token = t, !.bot = o])
           /\ IF bots[t] = o THEN Join(p, {"start"}, t) ELSE clash' = clash \cup {t}
           /\ UNCHANGED <<storage, sessions, begun, unsaved>>

(* A session is lost and comes back by itself.                             *)
Drop ==
    /\ \E c \in up : up' = up \ {c}
    /\ UNCHANGED <<storage, conns, pairing, made, replaced, control, th, history>>

Return ==
    /\ \E c \in conns \ up : up' = up \cup {c}
    /\ UNCHANGED <<storage, conns, pairing, made, replaced, control, th, history>>

-----------------------------------------------------------------------------
(* Pairing a phone.                                                        *)

(* QpWhatsappPairing.GetConnection: a connection of no bot yet; the page   *)
(* of the form pairs without a token.                                      *)
NewConnection(p) ==
    /\ At(p, "new connection") \/ At(p, "new page")
    /\ \/ /\ made < MaxConns
          /\ made' = made + 1 /\ conns' = conns \cup {made + 1}
          /\ pairing' = [c \in DOMAIN pairing \cup {made + 1} |->
                           IF c # made + 1 THEN pairing[c]
                           ELSE IF At(p, "new page") THEN None ELSE th[p].token]
          /\ Next1(p)
       \/ Answer(p, "failed") /\ UNCHANGED <<made, conns, pairing>>
    /\ UNCHANGED <<storage, up, replaced, control, history>>

(* OnPaired, in a goroutine of its own.  Without a token it is that of a   *)
(* bot of the same phone, or a fresh one: any token may be either.         *)
OnPaired(p) ==
    \E c \in DOMAIN pairing, t \in Tokens :
        /\ ~Busy(p) /\ pairing[c] \in {t, None}
        /\ pairing' = [d \in DOMAIN pairing \ {c} |-> pairing[d]]
        /\ up' = up \cup {c}
        /\ Set(p, [Idle EXCEPT !.todo = <<"pair">> \o Save, !.token = t, !.conn = c])
        /\ Join(p, {"pair"}, t)
        /\ UNCHANGED <<storage, conns, made, replaced, control, unsaved>>

(* AppendPaired: the connection takes the place of the one the bot has.    *)
AppendPaired(p) ==
    LET t == th[p].token
        c == th[p].conn
        o == Fresh
        b == IF Registered(t) THEN bots[t] ELSE o
        old == IF Registered(t) THEN heap[b].conn ELSE 0
    IN /\ At(p, "pair")
       /\ heap' = [x \in DOMAIN heap \cup {b} |->
                     IF x # b THEN heap[x]
                     ELSE [token |-> t, wid |-> c, conn |-> c,
                           conf |-> IF Registered(t) THEN heap[b].conf ELSE 0]]
       /\ bots' = [bots EXCEPT ![t] = b]
       /\ replaced' = IF old = 0 THEN replaced ELSE replaced \cup {old}
       /\ Set(p, Pop([th[p] EXCEPT !.bot = b]))
       /\ UNCHANGED <<rows, conns, up, pairing, made, control, history>>

-----------------------------------------------------------------------------
Step(p) ==
    \/ CheckInputs(p) \/ Ask(p) \/ Bot(p) \/ First(p) \/ Ready(p)
    \/ Connection(p) \/ Client(p) \/ Request(p) \/ Read(p) \/ Raw(p) \/ Call(p) \/ Each(p)
    \/ Lookup(p) \/ Update(p) \/ Create(p) \/ Toggle(p) \/ Exists(p) \/ Write(p)
    \/ Logout(p) \/ Clear(p) \/ DeleteRow(p) \/ Forget(p)
    \/ Start(p) \/ Stop(p) \/ NewConnection(p) \/ AppendPaired(p)

Next ==
    \/ \E p \in Procs : \E route \in RoutesOf[p], t \in Tokens : Begin(p, route, t)
    \/ \E p \in Procs : Step(p) \/ Initialize(p) \/ OnPaired(p)
    \/ Drop \/ Return \/ Reboot

Spec == Init /\ [][Next]_vars

-----------------------------------------------------------------------------
(* What the service promises.                                              *)

(* Whatever the requests did and wherever they failed, when nobody is      *)
(* changing a bot its object and its row agree, and a crash restores just  *)
(* the bots there were, unless the last Save of the bot failed, or it was  *)
(* made or deleted while another request was changing it.                  *)
MemoryIsDatabase ==
    \A t \in Tokens \ (clash \cup unsaved) :
        (\A p \in Procs : ~(Busy(p) /\ th[p].token = t)) =>
            IF Registered(t)
            THEN rows[t] = [wid |-> heap[bots[t]].wid, conf |-> heap[bots[t]].conf]
            ELSE rows[t] = None

(* No session of WhatsApp is left running that no bot stands for: it would *)
(* receive messages and nobody could stop it.  A pairing leaves the one it *)
(* takes the place of.                                                     *)
NoSessionIsOrphaned ==
    \A c \in conns \ (DOMAIN pairing \cup replaced) :
        \/ \E t \in Tokens : Registered(t) /\ heap[bots[t]].conn = c
        \/ \E o \in DOMAIN heap : heap[o].conn = c /\ heap[o].token \in clash
        \/ \E p \in Procs : th[p].conn = c

(* A request that tested whether the bot is ready panics only if another   *)
(* took the connection away meanwhile.                                     *)
PanicsOnlyIfTorn ==
    \A p \in Procs : th[p].answer = "panic" /\ th[p].ready => th[p].torn

(* A request that a test refuses has neither changed a bot nor sent        *)
(* anything.                                                               *)
RefusedChangesNothing ==
    \A p \in Procs : th[p].answer = "refused" => ~th[p].did

=============================================================================
