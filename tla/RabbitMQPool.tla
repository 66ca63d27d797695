---------------------------- MODULE RabbitMQPool ----------------------------
(***************************************************************************)
(* The clients shared by connection string                                 *)
(* (src/src/rabbitmq/rabbitmq_defaults.go), and the operations of the bots *)
(* that create and close them: publishing a message (PublishRabbitMQ),     *)
(* adding, removing and clearing dispatchings                              *)
(* (src/src/models/qp_data_dispatching.go).  Each process serves one HTTP  *)
(* request or one message at a time.  A client is the number of its        *)
(* creation, 0 is none; its inner life is RabbitMQClient.  Dispatchings    *)
(* are the connection strings of a bot; webhooks are left out.             *)
(***************************************************************************)
EXTENDS Naturals, Sequences, FiniteSets

CONSTANTS
    Bots,
    Strings,        \* connection strings
    Procs,
    Nobody,         \* the owner of a free lock
    MaxClients      \* bound: clients ever created

ASSUME PoolAssumption ==
    /\ MaxClients \in Nat
    /\ Nobody \notin Procs

VARIABLES
    dispatching,    \* the connection strings in the memory of each bot
    clientManager,  \* the registered client of each string, 0 if none
    clientMutex,    \* who holds it for writing
    stringOf,       \* the string of each client created, in order
    closed,         \* clients on which Close was called
    hung,           \* clients of which a call made under the lock does not
                    \* return: Close, or the set-up of a new client
    pc, bot, arg,   \* per process: where it is, for which bot and string
    clearing,       \* the processes in DispatchingClear
    todo,           \* the strings it has still to close
    got             \* the client GetRabbitMQClient gave to the process

poolVars == <<clientManager, clientMutex, stringOf, closed, hung>>
procVars == <<pc, bot, arg, clearing, todo, got>>
vars == <<dispatching, poolVars, procVars>>

made == Len(stringOf)

GetPC == {"lookup", "create", "check", "connect", "setup"}
ClosePC == {"close", "closing", "delete", "clear"}
PC == {"idle", "use"} \cup GetPC \cup ClosePC

TypeOK ==
    /\ dispatching \in [Bots -> SUBSET Strings]
    /\ clientManager \in [Strings -> 0..made]
    /\ clientMutex \in Procs \cup {Nobody}
    /\ stringOf \in Seq(Strings) /\ made <= MaxClients
    /\ closed \subseteq 1..made /\ hung \subseteq 1..made
    /\ pc \in [Procs -> PC]
    /\ bot \in [Procs -> Bots] /\ arg \in [Procs -> Strings]
    /\ clearing \subseteq Procs /\ todo \in [Procs -> SUBSET Strings]
    /\ got \in [Procs -> 0..made]

\* DispatchingFill: the dispatchings come from the database
Init ==
    /\ dispatching \in [Bots -> SUBSET Strings]
    /\ clientManager = [s \in Strings |-> 0]
    /\ clientMutex = Nobody
    /\ stringOf = <<>>
    /\ closed = {} /\ hung = {}
    /\ pc = [p \in Procs |-> "idle"]
    /\ bot \in [Procs -> Bots] /\ arg \in [Procs -> Strings]
    /\ clearing = {} /\ todo = [p \in Procs |-> {}]
    /\ got = [p \in Procs |-> 0]

Goto(p, l) == pc' = [pc EXCEPT ![p] = l]

Call(p, b, s, l) ==
    /\ pc[p] = "idle"
    /\ Goto(p, l)
    /\ bot' = [bot EXCEPT ![p] = b] /\ arg' = [arg EXCEPT ![p] = s]
    /\ UNCHANGED <<poolVars, got>>

\* the clients that may still be created keep within MaxClients
MayCreate ==
    made + Cardinality({p \in Procs : pc[p] \in GetPC}) < MaxClients

-----------------------------------------------------------------------------
(* GetRabbitMQClient                                                       *)

\* PostToDispatchingFromServer reached a dispatching of the bot
StartPublishing(p, b, s) ==
    /\ s \in dispatching[b] /\ MayCreate
    /\ Call(p, b, s, "lookup")
    /\ UNCHANGED <<dispatching, clearing, todo>>

\* DispatchingAddOrUpdate, after which the controller warms the client up
AddDispatching(p, b, s) ==
    /\ MayCreate
    /\ Call(p, b, s, "lookup")
    /\ dispatching' = [dispatching EXCEPT ![b] = @ \cup {s}]
    /\ UNCHANGED <<clearing, todo>>

\* the look-up under the read lock
Lookup(p) ==
    /\ pc[p] = "lookup" /\ clientMutex = Nobody
    /\ IF clientManager[arg[p]] # 0
         THEN /\ got' = [got EXCEPT ![p] = clientManager[arg[p]]]
              /\ Goto(p, "use")
         ELSE /\ UNCHANGED got
              /\ Goto(p, "create")
    /\ UNCHANGED <<dispatching, poolVars, bot, arg, clearing, todo>>

LockToCreate(p) ==
    /\ pc[p] = "create" /\ clientMutex = Nobody
    /\ clientMutex' = p
    /\ Goto(p, "check")
    /\ UNCHANGED <<dispatching, clientManager, stringOf, closed, hung,
                   bot, arg, clearing, todo, got>>

\* the second look-up: someone was faster
FoundMeanwhile(p) ==
    /\ pc[p] = "check" /\ clientManager[arg[p]] # 0
    /\ got' = [got EXCEPT ![p] = clientManager[arg[p]]]
    /\ clientMutex' = Nobody
    /\ Goto(p, "use")
    /\ UNCHANGED <<dispatching, clientManager, stringOf, closed, hung,
                   bot, arg, clearing, todo>>

\* as if there were no second look-up
CreateClient_Unchecked(p) ==
    /\ pc[p] = "check"
    /\ stringOf' = Append(stringOf, arg[p])
    /\ clientManager' = [clientManager EXCEPT ![arg[p]] = made + 1]
    /\ got' = [got EXCEPT ![p] = made + 1]
    /\ Goto(p, "connect")
    /\ UNCHANGED <<dispatching, clientMutex, closed, hung, bot, arg, clearing,
                   todo>>

\* the new client is registered before it has a connection
CreateClient(p) ==
    /\ pc[p] = "check" /\ clientManager[arg[p]] = 0
    /\ stringOf' = Append(stringOf, arg[p])
    /\ clientManager' = [clientManager EXCEPT ![arg[p]] = made + 1]
    /\ got' = [got EXCEPT ![p] = made + 1]
    /\ Goto(p, "connect")
    /\ UNCHANGED <<dispatching, clientMutex, closed, hung, bot, arg, clearing,
                   todo>>

\* WaitForConnection, with the lock held, finds a channel
Connected(p) ==
    /\ pc[p] = "connect"
    /\ Goto(p, "setup")
    /\ UNCHANGED <<dispatching, poolVars, bot, arg, clearing, todo, got>>

\* as if the time-out returned without releasing the lock
NotConnected_KeepsLock(p) ==
    /\ pc[p] = "connect"
    /\ Goto(p, "use")
    /\ UNCHANGED <<dispatching, poolVars, bot, arg, clearing, todo, got>>

\* GetRabbitMQClient returns the client, and the deferred unlock runs
Return(p) ==
    /\ clientMutex' = Nobody
    /\ Goto(p, "use")
    /\ UNCHANGED <<dispatching, clientManager, stringOf, closed, hung,
                   bot, arg, clearing, todo, got>>

\* or it gives up after 15 seconds
NotConnected(p) == pc[p] = "connect" /\ Return(p)

\* EnsureExchangeAndQueues, with the lock held, returns; its error is logged
SetUp(p) == pc[p] = "setup" /\ got[p] \notin hung /\ Return(p)

\* or it does not: the connection is lost while the monitor of the new client
\* waits for the set-up to end (Unheard of RabbitMQClient)
SetUpHangs(p) ==
    /\ pc[p] = "setup" /\ got[p] \notin hung
    /\ hung' = hung \cup {got[p]}
    /\ UNCHANGED <<dispatching, clientManager, clientMutex, stringOf, closed,
                   procVars>>

\* the rest of PublishRabbitMQ, on the client it was given
Use(p) ==
    /\ pc[p] = "use"
    /\ Goto(p, "idle")
    /\ got' = [got EXCEPT ![p] = 0]
    /\ UNCHANGED <<dispatching, poolVars, bot, arg, clearing, todo>>

-----------------------------------------------------------------------------
(* DispatchingRemove, DispatchingClear and CloseRabbitMQClient             *)

\* out of the database and of the memory first, then the client is closed
RemoveDispatching(p, b, s) ==
    /\ s \in dispatching[b]
    /\ Call(p, b, s, "close")
    /\ dispatching' = [dispatching EXCEPT ![b] = @ \ {s}]
    /\ UNCHANGED <<clearing, todo>>

\* DispatchingClear: the clients are closed first, one after the other
StartClear(p, b, s) ==
    /\ s \in dispatching[b]
    /\ Call(p, b, s, "close")
    /\ clearing' = clearing \cup {p}
    /\ todo' = [todo EXCEPT ![p] = dispatching[b] \ {s}]
    /\ UNCHANGED dispatching

LockToClose(p) ==
    /\ pc[p] = "close" /\ clientMutex = Nobody
    /\ clientMutex' = p
    /\ Goto(p, IF clientManager[arg[p]] = 0 THEN "delete" ELSE "closing")
    /\ UNCHANGED <<dispatching, clientManager, stringOf, closed, hung, bot,
                   arg, clearing, todo, got>>

\* Close, with the lock held
CloseClient(p) ==
    LET c == clientManager[arg[p]] IN
    /\ pc[p] = "closing" /\ c \notin hung
    /\ closed' = closed \cup {c}
    /\ \/ Goto(p, "delete") /\ UNCHANGED hung
       \/ hung' = hung \cup {c} /\ UNCHANGED pc
    /\ UNCHANGED <<dispatching, clientManager, clientMutex, stringOf, bot,
                   arg, clearing, todo, got>>

\* after a client: the next string of a clear, or its end, or the return
AfterClose(p) ==
    \/ \E s \in todo[p] :
          /\ arg' = [arg EXCEPT ![p] = s]
          /\ todo' = [todo EXCEPT ![p] = @ \ {s}]
          /\ Goto(p, "close")
    \/ /\ todo[p] = {}
       /\ Goto(p, IF p \in clearing THEN "clear" ELSE "idle")
       /\ UNCHANGED <<arg, todo>>

\* as if the closed client stayed registered
DeleteClient_Kept(p) ==
    /\ pc[p] = "delete"
    /\ clientMutex' = Nobody
    /\ AfterClose(p)
    /\ UNCHANGED <<dispatching, clientManager, stringOf, closed, hung, bot,
                   clearing, got>>

\* the client leaves the manager, and the lock is released
DeleteClient(p) ==
    /\ pc[p] = "delete"
    /\ clientManager' = [clientManager EXCEPT ![arg[p]] = 0]
    /\ clientMutex' = Nobody
    /\ AfterClose(p)
    /\ UNCHANGED <<dispatching, stringOf, closed, hung, bot, clearing, got>>

\* the memory is cleared when the database has been; after a database error
\* the dispatchings stay, without their clients
EndClear(p) ==
    /\ pc[p] = "clear"
    /\ \/ dispatching' = [dispatching EXCEPT ![bot[p]] = {}]
       \/ UNCHANGED dispatching
    /\ clearing' = clearing \ {p}
    /\ Goto(p, "idle")
    /\ UNCHANGED <<poolVars, bot, arg, todo, got>>

-----------------------------------------------------------------------------
Request(p) ==
    \E b \in Bots, s \in Strings :
        \/ StartPublishing(p, b, s) \/ AddDispatching(p, b, s)
        \/ RemoveDispatching(p, b, s) \/ StartClear(p, b, s)

Step(p) ==
    \/ Lookup(p) \/ LockToCreate(p) \/ FoundMeanwhile(p) \/ CreateClient(p)
    \/ Connected(p) \/ NotConnected(p) \/ SetUp(p) \/ SetUpHangs(p)
    \/ LockToClose(p) \/ CloseClient(p) \/ DeleteClient(p) \/ EndClear(p)

Next == \E p \in Procs : Request(p) \/ Step(p) \/ Use(p)

Spec == Init /\ [][Next]_vars

\* sync.RWMutex keeps nobody waiting for ever while others come and go.  What
\* a goroutine does with the client it was given may take for ever (Use)
FairSpec == Spec /\ \A p \in Procs : SF_vars(Step(p))

-----------------------------------------------------------------------------
Live == (1..made) \ closed

\* the process is inside Close, or between it and the deletion
InClose(c) ==
    \E p \in Procs : /\ pc[p] \in {"closing", "delete"}
                     /\ clientManager[arg[p]] = c

(***************************************************************************)
(* However the goroutines interleave there is never a second client for a  *)
(* connection string: every client that is not closed is the registered    *)
(* one, so it can still be found and closed.                               *)
(***************************************************************************)
LiveIsRegistered == \A c \in Live : clientManager[stringOf[c]] = c

(***************************************************************************)
(* GetRabbitMQClient hands out no client that was closed before: a closed  *)
(* client is registered only while its closer holds the lock.              *)
(***************************************************************************)
RegisteredIsLive ==
    \A s \in Strings : LET c == clientManager[s] IN
        c # 0 => stringOf[c] = s /\ (c \in closed => InClose(c))

(***************************************************************************)
(* A goroutine that asks for a client gets one, unless a call made under   *)
(* the lock hangs: the lock is released on every path, and                 *)
(* DispatchingClear, which takes it once per client, does not keep it.  A  *)
(* Close that hangs (CloseTerminates of RabbitMQClient) holds it for ever, *)
(* and so does a set-up that hangs (EveryCallReturns there).               *)
(***************************************************************************)
GetReturns == \A p \in Procs : pc[p] = "lookup" ~> pc[p] = "use" \/ hung # {}

(***************************************************************************)
(* A closed client that nobody publishes on any more is not reopened by    *)
(* its own removal: when no request is under way, every client that is     *)
(* live belongs to a dispatching of some bot.  qp_data_dispatching.go:94:  *)
(* "Close the RabbitMQ client after removing from memory to avoid race     *)
(* conditions".                                                            *)
(***************************************************************************)
NoOrphanedClient ==
    (\A p \in Procs : pc[p] = "idle") =>
        \A c \in Live : \E b \in Bots : stringOf[c] \in dispatching[b]

=============================================================================
