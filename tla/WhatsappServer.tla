---------------------------- MODULE WhatsappServer ----------------------------
(***************************************************************************)
(* One bot (src/src/models/qp_whatsapp_server.go, QpWhatsappServer), its   *)
(* connection objects (src/src/whatsmeow/whatsmeow_connection.go) and its  *)
(* row in the database.  The calls that start, stop, restart, toggle,      *)
(* pair, save and delete it come from HTTP requests and run concurrently;  *)
(* the session with WhatsApp opens, drops, reconnects by itself and is     *)
(* logged out from the phone.  Only EnsureUnderlying takes a lock, so a    *)
(* call is split at every read and write of a field another call changes.  *)
(* A connection is the number of its creation; the whatsmeow client it     *)
(* holds (socket, reconnection loop, device store) is external.            *)
(***************************************************************************)
EXTENDS Naturals, FiniteSets

CONSTANTS
    Callers,        \* goroutines that serve the requests
    Hook, Sock,     \* goroutines of the OnConnected and LoggedOut events
    None,           \* no connection; the owner of a free lock
    Ops,            \* the operations requested
    MaxCalls,       \* bound: operations requested
    MaxDrops,       \* bound: times a session is lost
    MaxLogouts      \* bound: logouts from the phone

AllOps == {"start", "stop", "restart", "toggle", "pair", "save", "delete"}

ASSUME ServerAssumption ==
    /\ Ops \subseteq AllOps
    /\ MaxCalls \in Nat /\ MaxDrops \in Nat /\ MaxLogouts \in Nat
    /\ Hook # Sock /\ {Hook, Sock} \cap Callers = {}
    /\ None \notin Nat /\ None \notin Callers \cup {Hook, Sock}

Threads == Callers \cup {Hook, Sock}

\* pairing makes one connection, every start at most one more
Conns == 1..(2 * MaxCalls)

VARIABLES
    connection,     \* of the server: a connection or None
    verified,
    stopRequested,
    attached,       \* Handler.aeh holds the dispatching handler
    lock,           \* syncConnection
    row,            \* the server has a row in the database
    deleted,        \* taken out of the service's servers
    paired,         \* history: a pairing has brought its connection
    muted,          \* history: the handler was cleared under a running client,
                    \* or a pairing brought one without it, and no Attach since
    made,           \* connections created
    session,        \* per connection: the socket of its client
    connecting,     \* IsConnecting
    failed,         \* failedToken
    disposed,       \* Dispose dropped the client
    closing,        \* goroutines of Client.Disconnect not run yet
    deaf,           \* event handlers that are unregistered
    store,          \* the device is in the store of whatsmeow
    hooks,          \* goroutines of OnConnected not run yet
    pc, op, conn,   \* per thread: where it is, what it does, on which connection
    calls, drops, logouts

serverVars == <<connection, verified, stopRequested, attached, lock>>
dbVars == <<row, deleted, paired, muted>>
connVars == <<made, session, connecting, failed, disposed, closing>>
clientVars == <<deaf, store, hooks>>
budget == <<calls, drops, logouts>>
vars == <<serverVars, dbVars, connVars, clientVars, pc, op, conn, budget>>

Live == {"open", "online"}
Labels == {"idle", "verify", "lock", "under", "create", "append", "state", "attach",
    "dial", "claim", "dialing", "redial", "reclaim", "redialing", "valid", "exists", "update",
    "add", "stopCheck", "stopSet", "disconnect", "dispose", "nil", "clear",
    "delConn", "delNil", "delRow", "mark", "unregister", "panic"}

TypeOK ==
    /\ connection \in Conns \cup {None} /\ lock \in Threads \cup {None}
    /\ verified \in BOOLEAN /\ stopRequested \in BOOLEAN
    /\ attached \in BOOLEAN /\ row \in BOOLEAN /\ deleted \in BOOLEAN
    /\ paired \in BOOLEAN /\ muted \in BOOLEAN
    /\ made \in 0..Cardinality(Conns)
    /\ session \in [Conns -> {"offline", "retrying"} \cup Live]
    /\ connecting \in [Conns -> BOOLEAN] /\ failed \in [Conns -> BOOLEAN]
    /\ disposed \subseteq 1..made /\ closing \subseteq disposed
    /\ deaf \subseteq 1..made /\ hooks \subseteq 1..made
    /\ store \in BOOLEAN
    /\ pc \in [Threads -> Labels]
    /\ op \in [Threads -> AllOps \cup {"ready", "event"}]
    /\ conn \in [Threads -> Conns \cup {None}]
    /\ calls \in 0..MaxCalls /\ drops \in 0..MaxDrops
    /\ logouts \in 0..MaxLogouts

\* a paired bot, loaded from the database (QPWhatsappService.Initialize)
Init ==
    /\ connection = None /\ lock = None
    /\ verified = TRUE /\ stopRequested = FALSE /\ attached = FALSE
    /\ row = TRUE /\ deleted = FALSE /\ paired = FALSE /\ muted = FALSE
    /\ made = 0 /\ session = [c \in Conns |-> "offline"]
    /\ connecting = [c \in Conns |-> FALSE]
    /\ failed = [c \in Conns |-> FALSE]
    /\ disposed = {} /\ closing = {} /\ deaf = {} /\ hooks = {}
    /\ store = TRUE
    /\ pc = [t \in Threads |-> "idle"]
    /\ op = [t \in Threads |-> "event"]
    /\ conn = [t \in Threads |-> None]
    /\ calls = 0 /\ drops = 0 /\ logouts = 0

-----------------------------------------------------------------------------
(* The state the server reports *)

IsConnected(c) == ~connecting[c] /\ c \notin disposed /\ session[c] \in Live

IsValid(c) == c \notin disposed /\ session[c] = "online"

\* GetStatus of a connection
ConnectionState(c) ==
    CASE c \in disposed -> "UnVerified"
      [] c \notin disposed /\ connecting[c] -> "Connecting"
      [] c \notin disposed /\ ~connecting[c] /\ session[c] = "online" -> "Ready"
      [] c \notin disposed /\ ~connecting[c] /\ session[c] = "open" ->
            "Connected"
      [] OTHER -> IF failed[c] THEN "Failed" ELSE "Disconnected"

\* GetState of the server
State ==
    CASE connection = None /\ ~verified -> "UnVerified"
      [] connection = None /\ verified ->
            IF stopRequested THEN "Stopped" ELSE "UnPrepared"
      [] connection # None /\ stopRequested ->
            IF IsConnected(connection) THEN "Stopping" ELSE "Stopped"
      [] OTHER ->
            IF ConnectionState(connection) = "Disconnected" /\ ~verified
            THEN "UnVerified" ELSE ConnectionState(connection)

IsValidToStart(s) == s \in {"Stopped", "Stopping", "Disconnected", "Failed"}

-----------------------------------------------------------------------------
(* Threads and their steps *)

At(t, l) == pc[t] = l
Goto(t, l) == pc' = [pc EXCEPT ![t] = l]
\* the step leaves everything but the server's fields alone
ServerStep(t) ==
    UNCHANGED <<dbVars, connVars, clientVars, op, conn, budget>>

Begin(t, o) ==
    /\ At(t, "idle") /\ ~deleted /\ calls < MaxCalls
    /\ calls' = calls + 1
    /\ op' = [op EXCEPT ![t] = o]
    /\ Goto(t, CASE o = "start" -> "verify"
                 [] o \in {"stop", "restart"} -> "stopCheck"
                 [] o = "toggle" ->
                        IF IsValidToStart(State) THEN "verify" ELSE "stopCheck"
                 [] o = "pair" -> "append"
                 [] o = "save" -> "exists"
                 [] o = "delete" -> "delConn")
    /\ UNCHANGED <<serverVars, dbVars, connVars, clientVars, conn, drops,
                   logouts>>

\* EnsureUnderlying, before the lock: the bot has a Wid
Verify(t) ==
    /\ At(t, "verify")
    /\ Goto(t, IF verified THEN "lock" ELSE "idle")
    /\ ServerStep(t) /\ UNCHANGED serverVars

\* Mutant: no lock
Lock_Free(t) ==
    /\ At(t, "lock") /\ lock' = t /\ Goto(t, "under")
    /\ ServerStep(t)
    /\ UNCHANGED <<connection, verified, stopRequested, attached>>

Lock(t) ==
    /\ At(t, "lock") /\ lock = None
    /\ lock' = t /\ Goto(t, "under")
    /\ ServerStep(t)
    /\ UNCHANGED <<connection, verified, stopRequested, attached>>

\* connection == nil?
Under(t) ==
    /\ At(t, "under")
    /\ \/ /\ connection = None /\ Goto(t, "create") /\ UNCHANGED lock
       \/ /\ connection # None /\ Goto(t, "state") /\ lock' = None
    /\ ServerStep(t)
    /\ UNCHANGED <<connection, verified, stopRequested, attached>>

\* MarkVerified(v), followed by Save when the value changes, else by `next'
MarkVerified(t, v, next) ==
    /\ verified' = v
    /\ Goto(t, IF verified = v THEN next ELSE "exists")

NewConnection(s) ==
    /\ made' = made + 1
    /\ session' = [session EXCEPT ![made + 1] = s]
    /\ connection' = made + 1
    /\ UNCHANGED <<connecting, failed, disposed, closing>>

\* Mutant: no deferred unlock on the way of success
Create_KeepsLock(t) ==
    /\ At(t, "create") /\ store
    /\ NewConnection("offline")
    /\ UNCHANGED lock /\ Goto(t, "state")
    /\ UNCHANGED <<verified, stopRequested, attached, dbVars, clientVars, op,
                   conn, budget>>

\* NewConnection in EnsureUnderlying, then the unlock
Create(t) ==
    /\ At(t, "create") /\ store
    /\ NewConnection("offline")
    /\ lock' = None /\ Goto(t, "state")
    /\ UNCHANGED <<verified, stopRequested, attached, dbVars, clientVars, op,
                   conn, budget>>

\* the store is gone: unauthorized; the lock is held until the save is done
CreateFails(t) ==
    /\ At(t, "create") /\ ~store
    /\ MarkVerified(t, FALSE, "idle")
    /\ lock' = IF verified THEN lock ELSE None
    /\ ServerStep(t) /\ UNCHANGED <<connection, stopRequested, attached>>

\* AppendPaired: the connection that scanned the code, and no lock
AppendPaired(t) ==
    /\ At(t, "append")
    /\ NewConnection("retrying") /\ store' = TRUE
    /\ paired' = TRUE /\ muted' = (muted \/ ~attached)
    /\ verified' = TRUE
    /\ Goto(t, "exists")
    /\ UNCHANGED <<stopRequested, attached, lock, row, deleted, deaf, hooks, op,
                   conn, budget>>

\* Mutant: the connection was given the handler, so nothing is registered with it
CheckState_Unattached(t) ==
    /\ At(t, "state")
    /\ \/ /\ op[t] = "ready" \/ IsValidToStart(State)
          /\ stopRequested' = FALSE /\ Goto(t, "dial")
       \/ /\ op[t] # "ready" /\ ~IsValidToStart(State)
          /\ Goto(t, "idle") /\ UNCHANGED stopRequested
    /\ ServerStep(t) /\ UNCHANGED <<connection, verified, attached, lock>>

\* Start refuses the states it is not for; EnsureReady does not ask
CheckState(t) ==
    /\ At(t, "state")
    /\ \/ /\ op[t] = "ready" \/ IsValidToStart(State)
          /\ stopRequested' = FALSE /\ Goto(t, "attach")
       \/ /\ op[t] # "ready" /\ ~IsValidToStart(State)
          /\ Goto(t, "idle") /\ UNCHANGED stopRequested
    /\ ServerStep(t) /\ UNCHANGED <<connection, verified, attached, lock>>

Attach(t) ==
    /\ At(t, "attach")
    /\ attached' = TRUE /\ muted' = FALSE /\ Goto(t, "dial")
    /\ UNCHANGED <<connection, verified, stopRequested, lock, row, deleted,
                   paired, connVars, clientVars, op, conn, budget>>

-----------------------------------------------------------------------------
(* WhatsmeowConnection.Connect, as Start (twice) and EnsureReady call it *)

AfterDial(t, l) ==
    IF op[t] = "ready" \/ l \in {"redial", "reclaim", "redialing"}
    THEN "valid" ELSE "redial"

Claim(l) == IF l = "dial" THEN "claim" ELSE "reclaim"
Dialing(l) == IF l = "claim" THEN "dialing" ELSE "redialing"

\* Start asks before the second call only, EnsureReady before its only one
AlreadyConnected(t) ==
    /\ At(t, "redial") \/ (At(t, "dial") /\ op[t] = "ready")
    /\ connection # None /\ IsConnected(connection)

\* nothing is done for a connection that IsConnecting
Connect(t) ==
    /\ pc[t] \in {"dial", "redial"}
    /\ \/ AlreadyConnected(t) /\ Goto(t, "valid") /\ UNCHANGED conn
       \/ connection = None /\ Goto(t, "panic") /\ UNCHANGED conn
       \/ /\ connection # None /\ ~AlreadyConnected(t)
          /\ Goto(t, IF connecting[connection] THEN AfterDial(t, pc[t])
                     ELSE Claim(pc[t]))
          /\ conn' = [conn EXCEPT ![t] = connection]
    /\ UNCHANGED <<serverVars, dbVars, connVars, clientVars, op, budget>>

\* IsConnecting = true; a client that Dispose dropped refuses at once
SetConnecting(t) ==
    /\ pc[t] \in {"claim", "reclaim"}
    /\ LET c == conn[t] IN
        \/ /\ c \notin disposed
           /\ connecting' = [connecting EXCEPT ![c] = TRUE]
           /\ Goto(t, Dialing(pc[t])) /\ UNCHANGED failed
        \/ /\ c \in disposed
           /\ connecting' = [connecting EXCEPT ![c] = FALSE]
           /\ failed' = [failed EXCEPT ![c] = TRUE]
           /\ Goto(t, "disconnect")
    /\ UNCHANGED <<serverVars, dbVars, made, session, disposed, closing,
                   clientVars, op, conn, budget>>

\* Client.Connect returns; it refuses a client that is connected, but goes on
\* with one that Dispose dropped meanwhile
Connected(t) ==
    /\ pc[t] \in {"dialing", "redialing"}
    /\ LET c == conn[t] IN
        /\ connecting' = [connecting EXCEPT ![c] = FALSE]
        /\ \/ /\ session[c] \notin Live /\ store
              /\ session' = [session EXCEPT ![c] = "open"]
              /\ failed' = [failed EXCEPT ![c] = FALSE]
              /\ Goto(t, AfterDial(t, pc[t]))
           \/ /\ failed' = [failed EXCEPT ![c] = TRUE]
              /\ Goto(t, "disconnect")
              /\ UNCHANGED session
    /\ UNCHANGED <<serverVars, dbVars, made, disposed, closing, clientVars,
                   op, conn, budget>>

\* the marks at the end of Start and EnsureReady
Valid(t) ==
    /\ At(t, "valid")
    /\ IF op[t] = "ready" \/ (connection # None /\ IsValid(connection))
       THEN MarkVerified(t, TRUE, "idle")
       ELSE Goto(t, "idle") /\ UNCHANGED verified
    /\ ServerStep(t)
    /\ UNCHANGED <<connection, stopRequested, attached, lock>>

-----------------------------------------------------------------------------
(* Stop, Restart, and the Disconnect they share with StartConnectionError *)

StopCheck(t) ==
    /\ At(t, "stopCheck")
    /\ \/ ~stopRequested /\ Goto(t, "stopSet") /\ UNCHANGED op
       \/ /\ stopRequested /\ op[t] = "restart"
          /\ Goto(t, "verify") /\ op' = [op EXCEPT ![t] = "start"]
       \/ /\ stopRequested /\ op[t] # "restart"
          /\ Goto(t, "idle") /\ UNCHANGED op
    /\ UNCHANGED <<serverVars, dbVars, connVars, clientVars, conn, budget>>

StopSet(t) ==
    /\ At(t, "stopSet")
    /\ stopRequested' = TRUE /\ Goto(t, "disconnect")
    /\ ServerStep(t) /\ UNCHANGED <<connection, verified, attached, lock>>

\* Disconnect acts on a connected connection only
Disconnect(t) ==
    /\ At(t, "disconnect")
    /\ IF connection # None /\ IsConnected(connection)
       THEN /\ Goto(t, "dispose")
            /\ conn' = [conn EXCEPT ![t] = connection]
       ELSE Goto(t, "clear") /\ UNCHANGED conn
    /\ UNCHANGED <<serverVars, dbVars, connVars, clientVars, op, budget>>

\* Mutant: Client = nil is forgotten
DisposeClient_KeepsClient(c) ==
    /\ UNCHANGED disposed
    /\ closing' = IF session'[c] \in Live THEN closing \cup {c} ELSE closing

\* Mutant: Client.Disconnect is forgotten
DisposeClient_KeepsSession(c) ==
    disposed' = disposed \cup {c} /\ UNCHANGED closing

\* a second Dispose finds no client
DisposeClient(c) ==
    /\ disposed' = disposed \cup {c}
    /\ closing' = IF c \notin disposed /\ session'[c] \in Live
                  THEN closing \cup {c} ELSE closing

Dispose(t) ==
    /\ At(t, "dispose")
    /\ UNCHANGED session /\ DisposeClient(conn[t])
    /\ Goto(t, "nil")
    /\ UNCHANGED <<serverVars, dbVars, made, connecting, failed, clientVars,
                   op, conn, budget>>

DropConnection(t) ==
    /\ \/ At(t, "nil") /\ Goto(t, "clear")
       \/ At(t, "delNil") /\ Goto(t, "delRow")
    /\ connection' = None
    /\ ServerStep(t) /\ UNCHANGED <<verified, stopRequested, attached, lock>>

\* the client of the server's connection has a session, or brings it back
Running == connection # None /\ session[connection] # "offline"

\* some request is between Attach and the end of its dials
Dials == {"dial", "claim", "dialing", "redial", "reclaim", "redialing"}
BeingDialed == \E t \in Callers : pc[t] \in Dials

\* Handler.Clear; a restart goes on with Start, a second later
Clear(t) ==
    /\ At(t, "clear")
    /\ attached' = FALSE /\ muted' = (Running \/ BeingDialed)
    /\ IF op[t] = "restart"
       THEN Goto(t, "verify") /\ op' = [op EXCEPT ![t] = "start"]
       ELSE Goto(t, "idle") /\ UNCHANGED op
    /\ UNCHANGED <<connection, verified, stopRequested, lock, row, deleted,
                   paired, connVars, clientVars, conn, budget>>

-----------------------------------------------------------------------------
(* Save and Delete *)

SaveExists(t) ==
    /\ At(t, "exists")
    /\ Goto(t, IF row THEN "update" ELSE "add")
    /\ ServerStep(t) /\ UNCHANGED serverVars

\* the end of a save: EnsureReady follows a pairing, the unlock a failed
\* EnsureUnderlying, the unregistration a logout; Update adds no row
SaveWrites(t) ==
    /\ pc[t] \in {"update", "add"}
    /\ row' = (row \/ At(t, "add"))
    /\ lock' = IF lock = t THEN None ELSE lock
    /\ CASE op[t] = "pair" ->
                Goto(t, "verify") /\ op' = [op EXCEPT ![t] = "ready"]
         [] t = Sock -> Goto(t, "unregister") /\ UNCHANGED op
         [] OTHER -> Goto(t, "idle") /\ UNCHANGED op
    /\ UNCHANGED <<connection, verified, stopRequested, attached, deleted,
                   paired, muted, connVars, clientVars, conn, budget>>

\* connection.Delete: Logout may fail if logged in; Dispose waits for the
\* lock of the socket, which a Client.Connect holds
DeleteConnection(t) ==
    /\ At(t, "delConn")
    /\ \/ connection = None /\ Goto(t, "delRow") /\ UNCHANGED <<connVars, store>>
       \/ /\ connection # None /\ IsValid(connection)
          /\ Goto(t, "idle") /\ UNCHANGED <<connVars, store>>
       \/ /\ connection # None /\ ~connecting[connection]
          /\ LET c == connection IN
              IF c \in disposed
              THEN UNCHANGED <<session, disposed, closing, store>>
              ELSE /\ store' = FALSE
                   /\ session' = [session EXCEPT ![c] =
                                    IF @ = "open" THEN @ ELSE "offline"]
                   /\ DisposeClient(c)
          /\ Goto(t, "delNil") /\ UNCHANGED <<made, connecting, failed>>
    /\ UNCHANGED <<serverVars, dbVars, deaf, hooks, op, conn, budget>>

\* then the row, and the service forgets the server
DeleteRow(t) ==
    /\ At(t, "delRow")
    /\ row' = FALSE /\ deleted' = TRUE
    /\ Goto(t, "idle")
    /\ UNCHANGED <<serverVars, paired, muted, connVars, clientVars, op, conn,
                   budget>>

-----------------------------------------------------------------------------
(* The session with WhatsApp, and the goroutines that handle its events *)

SessionStep ==
    UNCHANGED <<serverVars, dbVars, made, connecting, failed, disposed, op,
                conn, calls>>

\* events.Connected starts a goroutine, unless the handler is unregistered
Login(c) ==
    /\ session[c] = "open" /\ store
    /\ session' = [session EXCEPT ![c] = "online"]
    /\ hooks' = IF c \in deaf THEN hooks ELSE hooks \cup {c}
    /\ SessionStep /\ UNCHANGED <<closing, deaf, store, pc, drops, logouts>>

Drop(c) ==
    /\ session[c] \in Live /\ drops < MaxDrops
    /\ drops' = drops + 1
    /\ session' = [session EXCEPT ![c] = "retrying"]
    /\ SessionStep /\ UNCHANGED <<closing, clientVars, pc, logouts>>

\* EnableAutoReconnect, and AutoReconnectHook allows every attempt
Reconnect(c) ==
    /\ session[c] = "retrying" /\ store /\ ~connecting[c]
    /\ session' = [session EXCEPT ![c] = "open"]
    /\ SessionStep /\ UNCHANGED <<closing, clientVars, pc, drops, logouts>>

\* the phone removes the device; the event runs LoggedOut in the handler
LogOut(c) ==
    /\ session[c] \in Live /\ store /\ logouts < MaxLogouts
    /\ At(Sock, "idle")
    /\ logouts' = logouts + 1
    /\ store' = FALSE
    /\ session' = [session EXCEPT ![c] = "offline"]
    /\ UNCHANGED <<serverVars, dbVars, made, connecting, failed, disposed,
                   closing, op, calls, drops, deaf, hooks>>
    /\ IF c \in deaf THEN UNCHANGED <<pc, conn>>
       ELSE Goto(Sock, "mark") /\ conn' = [conn EXCEPT ![Sock] = c]

\* DispatchingHandler.OnConnected, whenever its goroutine runs
OnConnected(c) ==
    /\ At(Hook, "idle") /\ c \in hooks
    /\ hooks' = hooks \ {c}
    /\ MarkVerified(Hook, TRUE, "idle")
    /\ UNCHANGED <<connection, stopRequested, attached, lock, dbVars, connVars,
                   deaf, store, op, conn, budget>>

\* DispatchingHandler.LoggedOut
LoggedOut ==
    /\ At(Sock, "mark")
    /\ MarkVerified(Sock, FALSE, "unregister")
    /\ ServerStep(Sock)
    /\ UNCHANGED <<connection, stopRequested, attached, lock>>

UnRegister ==
    /\ At(Sock, "unregister")
    /\ deaf' = deaf \cup {conn[Sock]} /\ Goto(Sock, "idle")
    /\ UNCHANGED <<serverVars, dbVars, connVars, store, hooks, op, conn,
                   budget>>

\* the goroutines of Dispose
UnRegisterDisposed(c) ==
    /\ c \in disposed \ deaf
    /\ deaf' = deaf \cup {c}
    /\ UNCHANGED <<serverVars, dbVars, connVars, store, hooks, pc, op, conn,
                   budget>>

CloseSession(c) ==
    /\ c \in closing
    /\ closing' = closing \ {c}
    /\ session' = [session EXCEPT ![c] = "offline"]
    /\ SessionStep /\ UNCHANGED <<clientVars, pc, drops, logouts>>

-----------------------------------------------------------------------------
CallStep(t) ==
    \/ Verify(t) \/ Lock(t) \/ Under(t) \/ Create(t) \/ CreateFails(t)
    \/ AppendPaired(t) \/ CheckState(t) \/ Attach(t) \/ Connect(t)
    \/ SetConnecting(t) \/ Connected(t) \/ Valid(t) \/ StopCheck(t) \/ StopSet(t)
    \/ Disconnect(t) \/ Dispose(t) \/ DropConnection(t) \/ Clear(t)
    \/ DeleteConnection(t) \/ DeleteRow(t)

SaveStep(t) == SaveExists(t) \/ SaveWrites(t)

EventStep(c) ==
    \/ Login(c) \/ Drop(c) \/ Reconnect(c) \/ LogOut(c) \/ OnConnected(c)
    \/ UnRegisterDisposed(c) \/ CloseSession(c)

Next ==
    \/ \E t \in Callers : CallStep(t) \/ \E o \in Ops : Begin(t, o)
    \/ \E t \in Threads : SaveStep(t)
    \/ \E c \in Conns : EventStep(c)
    \/ LoggedOut \/ UnRegister

Spec == Init /\ [][Next]_vars

\* goroutines run on, a dial is answered; nothing forces an event or a request
FairSpec ==
    /\ Spec
    /\ \A t \in Callers : WF_vars(CallStep(t) \/ SaveStep(t))
    /\ WF_vars(LoggedOut \/ UnRegister \/ SaveStep(Sock))
    /\ WF_vars(SaveStep(Hook))
    /\ \A c \in Conns : WF_vars(CloseSession(c)) /\ WF_vars(UnRegisterDisposed(c))

-----------------------------------------------------------------------------
(* Properties *)

\* EnsureUnderlying makes a connection only where there is none: two starts
\* at once never replace each other's connection, which would stay connected
\* with nothing to stop it.  Only AppendPaired replaces one, or puts one where
\* EnsureUnderlying has just found none.
NothingIsReplaced ==
    [][made' > made /\ ~paired' => connection = None]_vars

\* With one request at a time, no pairing and no drops, every session is that
\* of the server's own connection or is about to be closed: a stopped,
\* restarted, deleted or logged out bot leaves no session behind.
LiveIsCurrent ==
    \A c \in 1..made : session[c] \in Live \cup {"retrying"} =>
        c = connection \/ c \in closing

\* Whatever the requests, drops, pairings and logouts: a bot that reports "Ready
\* and Fully operational" with no request under way, and does not hand its
\* messages to the dispatcher, had its handler cleared while its client was
\* reconnecting or another request was dialing, or was paired without it; and
\* no Start or EnsureReady has come as far as Register since.
ReadyIsAttached ==
    (\A t \in Callers : At(t, "idle")) /\ State = "Ready" => attached \/ muted

\* A bot that reports "Ready and Fully operational" hands its messages to the
\* dispatcher.
ReadyDispatches ==
    (\A t \in Callers : At(t, "idle")) /\ State = "Ready" => attached

\* Every request ends, whatever the others do with the lock.
CallsReturn ==
    \A t \in Callers : ~At(t, "idle") ~> pc[t] \in {"idle", "panic"}

\* Dispose disconnects: the session of a disposed connection is about to be
\* closed, or closed for good.
DisposedIsOffline == \A c \in disposed \ closing : session[c] \notin Live

\* One attempt to connect at a time.
OneConnectAtATime ==
    \A s, t \in Callers :
        pc[s] \in {"dialing", "redialing"} /\ pc[t] \in {"dialing", "redialing"}
            /\ conn[s] = conn[t] => s = t

\* "Stopped after request completed": with no request under way, a stopped
\* server stays stopped.
StoppedIsTheEnd ==
    [][(\A t \in Callers : At(t, "idle") /\ pc'[t] = pc[t])
        /\ State = "Stopped" => State' = "Stopped"]_vars

\* The row of a deleted server does not come back.
DeletedStaysDeleted == deleted => ~row

\* A logged out bot waits for a new pairing.
LoggedOutWaits ==
    (\A t \in Threads : At(t, "idle")) /\ hooks = {} /\ ~store => ~verified
=============================================================================
