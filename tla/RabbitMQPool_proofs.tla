------------------------- MODULE RabbitMQPool_proofs -------------------------
(***************************************************************************)
(* There is never a second live client for a connection string, and a      *)
(* closed one is registered only while its closer holds the lock: for any  *)
(* number of bots, strings, goroutines and clients.                        *)
(*                                                                         *)
(* The argument: every step that changes the manager is made by the owner  *)
(* of clientMutex.  It creates a client only for a string without one, and *)
(* takes out of the manager only a client that it has closed itself.       *)
(***************************************************************************)
EXTENDS RabbitMQPool, TLAPS

\* the types, without the bound on the clients created
TypeInv ==
    /\ dispatching \in [Bots -> SUBSET Strings]
    /\ clientManager \in [Strings -> 0..made]
    /\ clientMutex \in Procs \cup {Nobody}
    /\ stringOf \in Seq(Strings)
    /\ closed \subseteq 1..made /\ hung \subseteq 1..made
    /\ pc \in [Procs -> PC]
    /\ bot \in [Procs -> Bots] /\ arg \in [Procs -> Strings]
    /\ todo \in [Procs -> SUBSET Strings]
    /\ got \in [Procs -> 0..made]

Holding == {"check", "connect", "setup", "closing", "delete"}

OwnerHolds == \A p \in Procs : pc[p] \in Holding => clientMutex = p

\* a client to be closed is there, and one to be taken out has been closed
CloserHasClient ==
    \A p \in Procs :
        /\ pc[p] = "closing" => clientManager[arg[p]] # 0
        /\ pc[p] = "delete" => clientManager[arg[p]] \in closed \cup {0}

\* the creator has its client
SetterHasClient == \A p \in Procs : pc[p] \in {"connect", "setup"} => got[p] # 0

Inv == /\ TypeInv /\ OwnerHolds /\ CloserHasClient /\ SetterHasClient
       /\ LiveIsRegistered /\ RegisteredIsLive

LEMMA InitInv == Init => Inv
<1> SUFFICES ASSUME Init PROVE Inv
  OBVIOUS
<1> USE DEF Init, made
<1>1. TypeInv
  BY DEF TypeInv, PC
<1>2. OwnerHolds /\ CloserHasClient /\ SetterHasClient
  BY DEF OwnerHolds, CloserHasClient, SetterHasClient, Holding
<1>3. LiveIsRegistered /\ RegisteredIsLive
  BY DEF LiveIsRegistered, RegisteredIsLive, Live
<1> QED
  BY <1>1, <1>2, <1>3 DEF Inv

\* A goroutine moves to a label outside of the lock, and changes neither the
\* manager nor the clients.
Apart(p) ==
    /\ \E l \in PC \ Holding : pc' = [pc EXCEPT ![p] = l]
    /\ \A q \in Procs \ {p} : arg'[q] = arg[q]
    /\ UNCHANGED <<clientManager, stringOf, closed, hung>>
    /\ clientMutex' \in {clientMutex, IF clientMutex = p THEN Nobody ELSE clientMutex}
    /\ pc[p] \notin {"closing", "delete"}
    /\ dispatching' \in [Bots -> SUBSET Strings]
    /\ got' \in [Procs -> 0..made] /\ \A q \in Procs \ {p} : got'[q] = got[q]
    /\ bot' \in [Procs -> Bots] /\ arg' \in [Procs -> Strings]
    /\ todo' \in [Procs -> SUBSET Strings]

LEMMA ApartKeepsInv ==
    ASSUME Inv, NEW p \in Procs, Apart(p)
    PROVE  Inv'
<1> USE DEF Inv, TypeInv, Apart, made
<1>1. PICK l \in PC \ Holding : pc' = [pc EXCEPT ![p] = l]
  OBVIOUS
<1>2. pc' \in [Procs -> PC] /\ pc'[p] = l /\ \A q \in Procs \ {p} : pc'[q] = pc[q]
  BY <1>1
<1>3. TypeInv'
  BY <1>2
<1>4. OwnerHolds'
  BY <1>2 DEF OwnerHolds
<1>5. CloserHasClient' /\ SetterHasClient'
  BY <1>2 DEF CloserHasClient, SetterHasClient, Holding
<1>6. LiveIsRegistered'
  BY DEF LiveIsRegistered, Live
<1>7. RegisteredIsLive'
  <2> SUFFICES ASSUME NEW s \in Strings, clientManager'[s] # 0
               PROVE  /\ stringOf'[clientManager'[s]] = s
                      /\ clientManager'[s] \in closed' => InClose(clientManager[s])'
    BY DEF RegisteredIsLive
  <2>1. ASSUME clientManager[s] \in closed PROVE InClose(clientManager[s])'
    <3>1. PICK q \in Procs : pc[q] \in {"closing", "delete"} /\ clientManager[arg[q]] = clientManager[s]
      BY <2>1 DEF RegisteredIsLive, InClose
    <3>2. q # p
      BY <3>1
    <3> QED
      BY <1>2, <3>1, <3>2 DEF InClose
  <2> QED
    BY <2>1 DEF RegisteredIsLive
<1> QED
  BY <1>3, <1>4, <1>5, <1>6, <1>7

\* The requests, and the steps that only read the manager.
LEMMA ReaderIsApart ==
    ASSUME Inv, NEW p \in Procs,
           \/ Request(p) \/ Lookup(p) \/ FoundMeanwhile(p) \/ NotConnected(p) \/ SetUp(p)
           \/ Use(p) \/ EndClear(p)
    PROVE  Apart(p)
<1> USE DEF Inv, TypeInv, Apart, Goto, PC, GetPC, ClosePC, Holding, made, poolVars
<1>1. CASE Request(p)
  <2>1. PICK b \in Bots, s \in Strings :
           StartPublishing(p, b, s) \/ AddDispatching(p, b, s)
             \/ RemoveDispatching(p, b, s) \/ StartClear(p, b, s)
    BY <1>1 DEF Request
  <2>2. \E l \in {"lookup", "close"} : Call(p, b, s, l)
    BY <2>1 DEF StartPublishing, AddDispatching, RemoveDispatching, StartClear
  <2>3. todo' \in [Procs -> SUBSET Strings]
    BY <2>1 DEF StartPublishing, AddDispatching, RemoveDispatching, StartClear
  <2>4. dispatching' \in [Bots -> SUBSET Strings]
    <3>1. \E S \in SUBSET Strings :
             dispatching' = dispatching \/ dispatching' = [dispatching EXCEPT ![b] = S]
      <4>1. dispatching[b] \cup {s} \in SUBSET Strings /\ dispatching[b] \ {s} \in SUBSET Strings
        OBVIOUS
      <4> QED
        BY <2>1, <4>1 DEF StartPublishing, AddDispatching, RemoveDispatching, StartClear
    <3> QED
      BY <3>1
  <2>5. /\ pc[p] = "idle" /\ \E l \in {"lookup", "close"} : pc' = [pc EXCEPT ![p] = l]
        /\ bot' = [bot EXCEPT ![p] = b] /\ arg' = [arg EXCEPT ![p] = s]
        /\ UNCHANGED <<clientManager, clientMutex, stringOf, closed, hung, got>>
    BY <2>2 DEF Call
  <2>6. \E l \in PC \ Holding : pc' = [pc EXCEPT ![p] = l]
    BY <2>5
  <2>7. /\ \A q \in Procs \ {p} : arg'[q] = arg[q]
        /\ bot' \in [Procs -> Bots] /\ arg' \in [Procs -> Strings]
        /\ got' \in [Procs -> 0..Len(stringOf)'] /\ pc[p] \notin {"closing", "delete"}
    BY <2>5
  <2> QED
    BY <2>3, <2>4, <2>5, <2>6, <2>7
<1>2. CASE Lookup(p)
  BY <1>2 DEF Lookup
<1>3. CASE FoundMeanwhile(p)
  BY <1>3 DEF FoundMeanwhile, OwnerHolds
<1>4. CASE NotConnected(p) \/ SetUp(p)
  BY <1>4 DEF NotConnected, SetUp, Return, OwnerHolds
<1>5. CASE Use(p)
  <2>1. got' \in [Procs -> 0..made]
    <3>1. 0 \in 0..made
      OBVIOUS
    <3> QED
      BY <1>5, <3>1 DEF Use
  <2> QED
    BY <1>5, <2>1 DEF Use
<1>6. CASE EndClear(p)
  <2>1. dispatching' \in [Bots -> SUBSET Strings]
    BY <1>6 DEF EndClear
  <2> QED
    BY <1>6, <2>1 DEF EndClear
<1> QED
  BY <1>1, <1>2, <1>3, <1>4, <1>5, <1>6

\* The lock is taken when it is free, so nobody else is where it is needed.
LEMMA LockKeepsInv ==
    ASSUME Inv, NEW p \in Procs, LockToCreate(p) \/ LockToClose(p)
    PROVE  Inv'
<1> USE DEF Inv, TypeInv, made, Goto, PC, GetPC, ClosePC
<1>1. /\ UNCHANGED <<dispatching, clientManager, stringOf, closed, hung, bot, arg, todo, got>>
      /\ clientMutex = Nobody /\ clientMutex' = p
      /\ pc[p] \in {"create", "close"}
  BY DEF LockToCreate, LockToClose
<1>2. PICK l \in {"check", "delete", "closing"} :
         /\ pc' = [pc EXCEPT ![p] = l]
         /\ l = "delete" => clientManager[arg[p]] = 0
         /\ l = "closing" => clientManager[arg[p]] # 0
  BY DEF LockToCreate, LockToClose
<1>3. pc' \in [Procs -> PC] /\ pc'[p] = l /\ \A q \in Procs \ {p} : pc'[q] = pc[q]
  BY <1>2
<1>4. \A q \in Procs : pc[q] \notin Holding
  BY <1>1, PoolAssumption DEF OwnerHolds
<1>5. TypeInv' /\ OwnerHolds'
  BY <1>1, <1>3, <1>4 DEF OwnerHolds
<1>6. CloserHasClient' /\ SetterHasClient'
  BY <1>1, <1>2, <1>3, <1>4 DEF CloserHasClient, SetterHasClient, Holding
<1>7. LiveIsRegistered' /\ RegisteredIsLive'
  <2>1. \A c : ~InClose(c)
    BY <1>4 DEF InClose, Holding
  <2>2. \A s \in Strings : clientManager[s] # 0 =>
           stringOf[clientManager[s]] = s /\ clientManager[s] \notin closed
    BY <2>1 DEF RegisteredIsLive
  <2> QED
    BY <1>1, <2>2 DEF LiveIsRegistered, RegisteredIsLive, Live
<1> QED
  BY <1>5, <1>6, <1>7

\* A client is created under the lock, for a string that has none.
LEMMA CreateKeepsInv ==
    ASSUME Inv, NEW p \in Procs, CreateClient(p)
    PROVE  Inv'
<1> USE DEF Inv, TypeInv, made, Goto, CreateClient
<1>1. /\ pc' \in [Procs -> PC] /\ pc'[p] = "connect"
      /\ \A q \in Procs \ {p} : pc'[q] = pc[q] /\ pc[q] \notin Holding
  BY PoolAssumption DEF PC, GetPC, OwnerHolds, Holding
<1>2. /\ stringOf' \in Seq(Strings) /\ made' = made + 1 /\ made \in Nat
      /\ stringOf'[made + 1] = arg[p] /\ \A c \in 1..made : stringOf'[c] = stringOf[c]
  OBVIOUS
<1>3. /\ clientManager' \in [Strings -> 0..made + 1]
      /\ clientManager'[arg[p]] = made + 1
      /\ \A s \in Strings \ {arg[p]} : clientManager'[s] = clientManager[s]
  BY <1>2
<1>4. TypeInv'
  <2>1. got' \in [Procs -> 0..made + 1]
    BY <1>2
  <2>2. 1..made \subseteq 1..made + 1
    BY <1>2
  <2> QED
    BY <1>1, <1>2, <1>3, <2>1, <2>2
<1>5. OwnerHolds' /\ CloserHasClient' /\ SetterHasClient'
  BY <1>1, <1>2 DEF OwnerHolds, CloserHasClient, SetterHasClient, Holding
<1>6. \A c : ~InClose(c)
  BY <1>1 DEF InClose, Holding
<1>7. LiveIsRegistered'
  <2> SUFFICES ASSUME NEW c \in 1..made', c \notin closed
               PROVE  clientManager'[stringOf'[c]] = c
    BY DEF LiveIsRegistered, Live
  <2>1. CASE c = made + 1
    BY <1>2, <1>3, <2>1
  <2>2. CASE c # made + 1
    <3>1. c \in 1..made /\ stringOf[c] \in Strings /\ clientManager[stringOf[c]] = c
      BY <1>2, <2>2 DEF LiveIsRegistered, Live
    <3> QED
      BY <1>2, <1>3, <3>1
  <2> QED
    BY <2>1, <2>2
<1>8. RegisteredIsLive'
  <2> SUFFICES ASSUME NEW s \in Strings, clientManager'[s] # 0
               PROVE  stringOf'[clientManager'[s]] = s /\ clientManager'[s] \notin closed'
    BY DEF RegisteredIsLive
  <2>1. CASE s = arg[p]
    BY <1>2, <1>3, <2>1
  <2>2. CASE s # arg[p]
    <3>1. /\ clientManager'[s] = clientManager[s] /\ clientManager[s] \in 1..made
          /\ stringOf[clientManager[s]] = s /\ clientManager[s] \notin closed
      BY <1>2, <1>3, <1>6, <2>2 DEF RegisteredIsLive
    <3> QED
      BY <1>2, <3>1
  <2> QED
    BY <2>1, <2>2
<1> QED
  BY <1>4, <1>5, <1>7, <1>8

\* It is set up under the lock, whether or not the set-up ever returns.
LEMMA SetUpKeepsInv ==
    ASSUME Inv, NEW p \in Procs, Connected(p) \/ SetUpHangs(p)
    PROVE  Inv'
<1> USE DEF Inv, TypeInv, made
<1>1. /\ pc' \in [Procs -> PC] /\ pc[p] \in {"connect", "setup"} /\ pc'[p] = "setup"
      /\ \A q \in Procs \ {p} : pc'[q] = pc[q]
      /\ UNCHANGED <<dispatching, clientManager, clientMutex, stringOf, closed, bot, arg, todo, got>>
  BY DEF Connected, SetUpHangs, Goto, poolVars, procVars, PC, GetPC
<1>2. hung' \subseteq 1..made
  <2>1. CASE Connected(p)
    BY <2>1 DEF Connected, poolVars
  <2>2. CASE SetUpHangs(p)
    <3>1. got[p] # 0 /\ made \in Nat
      BY <2>2 DEF SetUpHangs, SetterHasClient
    <3>2. got[p] \in 1..made
      BY <3>1
    <3>3. hung' = hung \cup {got[p]}
      BY <2>2 DEF SetUpHangs
    <3> QED
      BY <3>2, <3>3
  <2> QED
    BY <2>1, <2>2
<1>3. TypeInv' /\ OwnerHolds' /\ CloserHasClient' /\ SetterHasClient'
  BY <1>1, <1>2 DEF OwnerHolds, CloserHasClient, SetterHasClient, Holding
<1>4. LiveIsRegistered'
  BY <1>1 DEF LiveIsRegistered, Live
<1>5. \A c : InClose(c)' <=> InClose(c)
  BY <1>1 DEF InClose
<1>6. RegisteredIsLive'
  BY <1>1, <1>5 DEF RegisteredIsLive
<1> QED
  BY <1>3, <1>4, <1>6

\* A client is closed by the owner of the lock and stays registered ...
LEMMA CloseKeepsInv ==
    ASSUME Inv, NEW p \in Procs, CloseClient(p)
    PROVE  Inv'
<1> USE DEF Inv, TypeInv, made, Goto, CloseClient
<1> DEFINE c == clientManager[arg[p]]
<1>1. c \in 1..made
  BY DEF CloserHasClient
<1>2. /\ pc' \in [Procs -> PC] /\ pc'[p] \in {"closing", "delete"}
      /\ \A q \in Procs \ {p} : pc'[q] = pc[q] /\ pc[q] \notin Holding
      /\ pc[p] = "closing"
  BY PoolAssumption DEF PC, ClosePC, OwnerHolds, Holding
<1>3. TypeInv' /\ OwnerHolds' /\ CloserHasClient' /\ SetterHasClient'
  BY <1>1, <1>2 DEF OwnerHolds, CloserHasClient, SetterHasClient, Holding
<1>4. LiveIsRegistered'
  BY DEF LiveIsRegistered, Live
<1>5. \A d : InClose(d) <=> d = c
  BY <1>2 DEF InClose, Holding
<1>6. \A d : InClose(d)' <=> d = c
  BY <1>2 DEF InClose, Holding
<1>7. RegisteredIsLive'
  BY <1>5, <1>6 DEF RegisteredIsLive
<1> QED
  BY <1>3, <1>4, <1>7

\* ... until the owner takes it out of the manager.
LEMMA DeleteKeepsInv ==
    ASSUME Inv, NEW p \in Procs, DeleteClient(p)
    PROVE  Inv'
<1> USE DEF Inv, TypeInv, made, Goto, DeleteClient
<1>1. \A q \in Procs \ {p} : pc[q] \notin Holding
  BY PoolAssumption DEF OwnerHolds, Holding
<1>2. PICK l \in {"close", "clear", "idle"} : pc' = [pc EXCEPT ![p] = l]
  BY DEF AfterClose
<1>3. /\ pc' \in [Procs -> PC] /\ pc'[p] \notin Holding
      /\ \A q \in Procs \ {p} : pc'[q] = pc[q]
  BY <1>2 DEF PC, ClosePC, Holding
<1>4. arg' \in [Procs -> Strings] /\ todo' \in [Procs -> SUBSET Strings]
  <2>1. CASE todo[p] = {} /\ UNCHANGED <<arg, todo>>
    BY <2>1
  <2>2. CASE \E s \in todo[p] : /\ arg' = [arg EXCEPT ![p] = s]
                                /\ todo' = [todo EXCEPT ![p] = @ \ {s}]
    BY <2>2
  <2> QED
    BY <2>1, <2>2 DEF AfterClose
<1>5. /\ clientManager' \in [Strings -> 0..made] /\ clientManager'[arg[p]] = 0
      /\ \A s \in Strings \ {arg[p]} : clientManager'[s] = clientManager[s]
  <2>1. 0 \in 0..made
    OBVIOUS
  <2> QED
    BY <2>1
<1>6. TypeInv'
  BY <1>3, <1>4, <1>5
<1>7. OwnerHolds' /\ CloserHasClient' /\ SetterHasClient'
  BY <1>1, <1>3 DEF OwnerHolds, CloserHasClient, SetterHasClient, Holding
<1>8. LiveIsRegistered'
  <2> SUFFICES ASSUME NEW c \in 1..made, c \notin closed
               PROVE  clientManager'[stringOf[c]] = c
    BY DEF LiveIsRegistered, Live
  <2>1. stringOf[c] \in Strings /\ clientManager[stringOf[c]] = c
    BY DEF LiveIsRegistered, Live
  <2>2. stringOf[c] # arg[p]
    BY <2>1 DEF CloserHasClient
  <2> QED
    BY <1>5, <2>1, <2>2
<1>9. RegisteredIsLive'
  <2> SUFFICES ASSUME NEW s \in Strings, clientManager'[s] # 0
               PROVE  stringOf[clientManager'[s]] = s /\ clientManager'[s] \notin closed
    BY DEF RegisteredIsLive
  <2>1. s # arg[p] /\ clientManager'[s] = clientManager[s]
    BY <1>5
  <2>2. stringOf[clientManager[s]] = s
    BY <2>1 DEF RegisteredIsLive
  <2>3. clientManager[s] \notin closed
    <3> SUFFICES ASSUME clientManager[s] \in closed PROVE FALSE
      OBVIOUS
    <3>1. InClose(clientManager[s])
      BY <2>1 DEF RegisteredIsLive
    <3>2. clientManager[arg[p]] = clientManager[s]
      BY <1>1, <3>1 DEF InClose, Holding
    <3>3. stringOf[clientManager[arg[p]]] = arg[p]
      BY <2>1, <3>2 DEF RegisteredIsLive
    <3> QED
      BY <2>1, <2>2, <3>2, <3>3
  <2> QED
    BY <2>1, <2>2, <2>3
<1> QED
  BY <1>6, <1>7, <1>8, <1>9

LEMMA StepKeepsInv == Inv /\ [Next]_vars => Inv'
<1> SUFFICES ASSUME Inv, [Next]_vars PROVE Inv'
  OBVIOUS
<1>1. ASSUME NEW p \in Procs, Request(p) \/ Step(p) \/ Use(p) PROVE Inv'
  BY <1>1, ReaderIsApart, ApartKeepsInv, LockKeepsInv, CreateKeepsInv, SetUpKeepsInv,
     CloseKeepsInv, DeleteKeepsInv DEF Step
<1>2. CASE UNCHANGED vars
  BY <1>2 DEF vars, poolVars, procVars, Inv, TypeInv, made, OwnerHolds, CloserHasClient, SetterHasClient,
              LiveIsRegistered, RegisteredIsLive, Live, InClose
<1> QED
  BY <1>1, <1>2 DEF Next

LEMMA Invariance == Spec => []Inv
BY InitInv, StepKeepsInv, PTL DEF Spec

(***************************************************************************)
(* GetRabbitMQClient looks the string up again under the write lock, and   *)
(* CloseRabbitMQClient closes and deletes under it: a client that is not   *)
(* closed is always the registered one of its string, so there is never a  *)
(* second, and it can still be found and closed.                           *)
(***************************************************************************)
THEOREM OneClientPerString == Spec => []LiveIsRegistered
<1>1. Inv => LiveIsRegistered
  BY DEF Inv
<1> QED
  BY <1>1, Invariance, PTL

(***************************************************************************)
(* A closed client is registered only between Close and the deletion, of   *)
(* which both happen under the lock: GetRabbitMQClient gives none away.    *)
(***************************************************************************)
THEOREM ClosedIsUnregistered == Spec => []RegisteredIsLive
<1>1. Inv => RegisteredIsLive
  BY DEF Inv
<1> QED
  BY <1>1, Invariance, PTL
=============================================================================
