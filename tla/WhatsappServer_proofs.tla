------------------------ MODULE WhatsappServer_proofs ------------------------
(***************************************************************************)
(* Three arguments about one bot.  EnsureUnderlying makes a connection     *)
(* only where there is none, for any number of concurrent requests,        *)
(* sessions, drops and logouts, until a pairing brings a connection.  The  *)
(* check and the assignment are two steps; what keeps them together is     *)
(* that a thread between them owns the lock, and that the code outside of  *)
(* the lock, AppendPaired excepted, only ever takes the connection away.   *)
(* No request makes more than its share of connections.  And where the     *)
(* requests follow one another, no session outlives its connection and no  *)
(* Ready bot is without its handler.                                       *)
(***************************************************************************)
EXTENDS WhatsappServer, FiniteSetTheorems, TLAPS

\* inside EnsureUnderlying, between the lock and the unlock
Inside == {"under", "create"}

TypeInv ==
    /\ pc \in [Threads -> Labels]
    /\ lock \in Threads \cup {None}
    /\ made \in Nat

OwnerInside == \A t \in Threads : pc[t] \in Inside => lock = t

StillNone ==
    ~paired => \A t \in Threads : pc[t] = "create" => connection = None

Inv == TypeInv /\ OwnerInside /\ StillNone

\* what every step of thread t does but the three inside EnsureUnderlying
Outside(t) ==
    /\ \E l \in Labels \ Inside : pc' = [pc EXCEPT ![t] = l]
    /\ paired' \/ connection' \in {connection, None}
    /\ paired => paired'
    /\ lock' \in {lock, IF lock = t THEN None ELSE lock}
    /\ made' = made \/ (paired' /\ made' = made + 1)

\* A thread that stays out of EnsureUnderlying, or leaves it, keeps Inv.
LEMMA OutsideKeepsInv ==
    ASSUME Inv, NEW t \in Threads, Outside(t)
    PROVE  Inv'
<1> USE DEF Inv, TypeInv, OwnerInside, StillNone, Outside
<1>1. PICK l \in Labels \ Inside : pc' = [pc EXCEPT ![t] = l]
  OBVIOUS
<1>2. pc' \in [Threads -> Labels] /\ pc'[t] = l
        /\ \A u \in Threads \ {t} : pc'[u] = pc[u]
  BY <1>1
<1>4. lock' \in Threads \cup {None} /\ made' \in Nat
  OBVIOUS
<1>5. \A u \in Threads : pc'[u] \in Inside => lock' = u
  BY <1>2
<1>6. ~paired' => \A u \in Threads : pc'[u] = "create" => connection' = None
  BY <1>2 DEF Inside
<1> QED
  BY <1>2, <1>4, <1>5, <1>6

\* The requests begin outside.
LEMMA BeginIsOutside ==
    ASSUME NEW t \in Threads, NEW o \in Ops, Begin(t, o)
    PROVE  Outside(t)
<1>1. o \in AllOps
  BY ServerAssumption
<1>2. \E l \in Labels \ Inside : pc' = [pc EXCEPT ![t] = l]
  <2>1. \/ pc' = [pc EXCEPT ![t] = "verify"]
        \/ pc' = [pc EXCEPT ![t] = "stopCheck"]
        \/ pc' = [pc EXCEPT ![t] = "exists"]
        \/ pc' = [pc EXCEPT ![t] = "delConn"]
        \/ pc' = [pc EXCEPT ![t] = "append"]
    BY <1>1 DEF Begin, Goto, AllOps
  <2> QED
    BY <2>1 DEF Labels, Inside
<1> QED
  BY <1>2 DEF Outside, Begin, serverVars, connVars, dbVars

\* The steps of the requests, but for those inside.
LEMMA CallIsOutside ==
    ASSUME Inv, NEW t \in Threads,
           \/ Verify(t) \/ CreateFails(t) \/ CheckState(t) \/ Attach(t)
           \/ Connect(t) \/ SetConnecting(t) \/ Connected(t) \/ Valid(t)
           \/ StopCheck(t) \/ StopSet(t) \/ Disconnect(t) \/ Dispose(t)
           \/ DropConnection(t) \/ Clear(t) \/ DeleteConnection(t)
           \/ DeleteRow(t) \/ SaveStep(t) \/ AppendPaired(t)
    PROVE  Outside(t)
<1> USE DEF Outside, Goto, At, Labels, Inside, ServerStep, serverVars,
            connVars, dbVars, MarkVerified
<1>1. CASE Verify(t)
  BY <1>1 DEF Verify
<1>2. CASE CreateFails(t)
  <2>1. lock = t
    BY <1>2 DEF CreateFails, Inv, OwnerInside
  <2>2. \/ pc' = [pc EXCEPT ![t] = "idle"]
        \/ pc' = [pc EXCEPT ![t] = "exists"]
    BY <1>2 DEF CreateFails
  <2>3. lock' = lock \/ lock' = None
    BY <1>2 DEF CreateFails
  <2>4. paired' = paired /\ connection' = connection /\ made' = made
    BY <1>2 DEF CreateFails
  <2> QED
    BY <2>1, <2>2, <2>3, <2>4
<1>3. CASE CheckState(t) \/ Attach(t)
  BY <1>3 DEF CheckState, Attach
<1>4. CASE Connect(t)
  BY <1>4 DEF Connect, Claim, AfterDial
<1>5. CASE SetConnecting(t)
  BY <1>5 DEF SetConnecting, Dialing
<1>6. CASE Connected(t)
  BY <1>6 DEF Connected, AfterDial
<1>7. CASE Valid(t)
  BY <1>7 DEF Valid
<1>8. CASE StopCheck(t) \/ StopSet(t)
  BY <1>8 DEF StopCheck, StopSet
<1>9. CASE Disconnect(t) \/ Dispose(t)
  BY <1>9 DEF Disconnect, Dispose
<1>10. CASE DropConnection(t) \/ Clear(t)
  BY <1>10 DEF DropConnection, Clear
<1>11. CASE DeleteConnection(t) \/ DeleteRow(t)
  BY <1>11 DEF DeleteConnection, DeleteRow
<1>12. CASE SaveStep(t)
  BY <1>12 DEF SaveStep, SaveExists, SaveWrites
<1>13. CASE AppendPaired(t)
  BY <1>13 DEF AppendPaired, NewConnection
<1> QED
  BY <1>1, <1>2, <1>3, <1>4, <1>5, <1>6, <1>7, <1>8, <1>9, <1>10, <1>11, <1>12,
     <1>13

\* The steps inside: the thread owns the lock, so no other thread is there.
LEMMA InsideKeepsInv ==
    ASSUME Inv, NEW t \in Threads, Lock(t) \/ Under(t) \/ Create(t)
    PROVE  Inv' /\ (made' > made /\ ~paired' => connection = None)
<1> USE DEF Inv, TypeInv, OwnerInside, StillNone, Goto, At, Labels,
            Inside, ServerStep, connVars, dbVars
<1>0. None \notin Threads
  BY ServerAssumption DEF Threads
<1>1. CASE Lock(t)
  BY <1>0, <1>1 DEF Lock
<1>2. CASE Under(t)
  <2>1. /\ paired' = paired /\ connection' = connection /\ made' = made
        /\ \/ /\ connection = None /\ lock' = lock
              /\ pc' = [pc EXCEPT ![t] = "create"]
           \/ lock' = None /\ pc' = [pc EXCEPT ![t] = "state"]
    BY <1>2 DEF Under
  <2>2. lock = t /\ \A u \in Threads \ {t} : pc[u] \notin Inside
    BY <1>2 DEF Under
  <2> QED
    BY <2>1, <2>2
<1>3. CASE Create(t)
  <2>1. /\ paired' = paired /\ lock' = None /\ made' = made + 1
        /\ pc' = [pc EXCEPT ![t] = "state"]
    BY <1>3 DEF Create, NewConnection
  <2>2. lock = t /\ (~paired => connection = None)
        /\ \A u \in Threads \ {t} : pc[u] \notin Inside
    BY <1>3 DEF Create
  <2> QED
    BY <2>1, <2>2
<1> QED
  BY <1>1, <1>2, <1>3

\* The events of the session: two goroutines of their own take part.
LEMMA EventKeepsInv ==
    ASSUME Inv, (\E c \in Conns : EventStep(c)) \/ LoggedOut \/ UnRegister
    PROVE  Inv' /\ made' = made
<1> USE DEF Goto, At, Labels, Inside, ServerStep, SessionStep, serverVars,
            connVars, dbVars, MarkVerified
<1>0. Hook \in Threads /\ Sock \in Threads
  BY DEF Threads
<1>1. CASE LoggedOut \/ UnRegister
  <2>1. Outside(Sock) /\ made' = made
    BY <1>1 DEF LoggedOut, UnRegister, Outside
  <2> QED
    BY <1>0, <2>1, OutsideKeepsInv
<1>2. ASSUME NEW c \in Conns, EventStep(c)
      PROVE  Inv' /\ made' = made
  <2>1. CASE OnConnected(c)
    <3>1. Outside(Hook) /\ made' = made
      BY <2>1 DEF OnConnected, Outside
    <3> QED
      BY <1>0, <3>1, OutsideKeepsInv
  <2>2. CASE LogOut(c)
    <3>1. CASE Outside(Sock) /\ made' = made
      BY <1>0, <3>1, OutsideKeepsInv
    <3>2. CASE UNCHANGED <<pc, paired, connection, lock, made>>
      BY <3>2 DEF Inv, TypeInv, OwnerInside, StillNone
    <3> QED
      BY <2>2, <3>1, <3>2 DEF LogOut, Outside
  <2>3. CASE Login(c) \/ Drop(c) \/ Reconnect(c) \/ UnRegisterDisposed(c)
                \/ CloseSession(c)
    <3>1. UNCHANGED <<pc, paired, connection, lock, made>>
      BY <2>3 DEF Login, Drop, Reconnect, UnRegisterDisposed, CloseSession
    <3> QED
      BY <3>1 DEF Inv, TypeInv, OwnerInside, StillNone
  <2> QED
    BY <1>2, <2>1, <2>2, <2>3 DEF EventStep
<1> QED
  BY <1>1, <1>2

\* Every step keeps Inv, and makes a connection only where there is none.
LEMMA StepKeepsInv ==
    ASSUME Inv, Next
    PROVE  Inv' /\ (made' > made /\ ~paired' => connection = None)
<1>0. made \in Nat /\ Callers \subseteq Threads
  BY DEF Inv, TypeInv, Threads
<1>1. ASSUME NEW t \in Threads, Outside(t)
      PROVE  Inv' /\ (made' > made /\ ~paired' => connection = None)
  <2>1. ~(made' > made /\ ~paired')
    BY <1>0, <1>1 DEF Outside
  <2> QED
    BY <1>1, <2>1, OutsideKeepsInv
<1>2. ASSUME NEW t \in Threads,
             CallStep(t) \/ SaveStep(t) \/ \E o \in Ops : Begin(t, o)
      PROVE  Inv' /\ (made' > made /\ ~paired' => connection = None)
  <2>1. CASE Lock(t) \/ Under(t) \/ Create(t)
    BY <2>1, InsideKeepsInv
  <2>2. CASE Outside(t)
    BY <1>1, <2>2
  <2> QED
    BY <1>2, <2>1, <2>2, CallIsOutside, BeginIsOutside DEF CallStep
<1>3. ASSUME (\E c \in Conns : EventStep(c)) \/ LoggedOut \/ UnRegister
      PROVE  Inv' /\ (made' > made /\ ~paired' => connection = None)
  BY <1>0, <1>3, EventKeepsInv
<1> QED
  BY <1>0, <1>1, <1>2, <1>3 DEF Next

LEMMA InitInv == Init => Inv
BY DEF Init, Inv, TypeInv, OwnerInside, StillNone, Inside, Labels

\* NothingIsReplaced for every number of requests, pairings and connections:
\* until a pairing brings a connection, EnsureUnderlying replaces none.
THEOREM ConnectionIsNeverReplaced == Spec => NothingIsReplaced
<1>1. Inv /\ [Next]_vars => Inv'
  BY StepKeepsInv DEF vars, serverVars, connVars, dbVars, Inv, TypeInv,
       OwnerInside, StillNone
<1>2. Inv /\ [Next]_vars
        => [made' > made /\ ~paired' => connection = None]_vars
  BY StepKeepsInv
<1> QED
  BY InitInv, <1>1, <1>2, PTL DEF Spec, NothingIsReplaced

-----------------------------------------------------------------------------
(***************************************************************************)
(* Types.  What is hard in TypeOK is that `made' stays among the           *)
(* connections: pairing makes one, every start at most one more.  So made  *)
(* connections are counted together with those the requests under way may  *)
(* still make: at most two for every call that has begun.                  *)
(***************************************************************************)
Saving == {"exists", "update", "add"}
Halting == {"stopCheck", "stopSet", "disconnect", "dispose", "nil", "clear"}
Dialled == {"claim", "dialing", "reclaim", "redialing", "dispose"}

\* the requests that may still come to EnsureUnderlying
MayCreate(t) ==
    \/ pc[t] \in {"append", "verify", "lock", "under", "create"}
    \/ pc[t] \in Saving /\ op[t] = "pair"
    \/ pc[t] \in Halting /\ op[t] = "restart"

Makers == {t \in Callers : MayCreate(t)}
Pairers == {t \in Callers : pc[t] = "append"}

Counted ==
    /\ IsFiniteSet(Makers) /\ IsFiniteSet(Pairers)
    /\ made + Cardinality(Makers) + Cardinality(Pairers) <= 2 * calls

\* every connection a variable speaks of was made
Kept ==
    /\ connection \in 1..made \cup {None}
    /\ \A t \in Threads : conn[t] \in 1..made \cup {None}
    /\ \A t \in Callers : pc[t] \in Dialled => conn[t] \in 1..made
    /\ \A c \in Conns : session[c] # "offline" => c \in 1..made
    /\ pc[Sock] # "idle" => conn[Sock] \in 1..made
    /\ pc[Hook] \in Saving \cup {"idle"}
    /\ pc[Sock] \in Saving \cup {"idle", "mark", "unregister"}
    /\ op[Hook] = "event" /\ op[Sock] = "event"

\* a restart goes on as a start, a pairing as an EnsureReady
Phases ==
    \A t \in Callers :
        /\ op[t] = "restart" => pc[t] \in Halting \cup {"idle"}
        /\ op[t] = "pair" => pc[t] \in Saving \cup {"append", "idle"}

Typed == TypeOK /\ Kept /\ Phases /\ Counted

\* There are as many connections as the bound allows.
LEMMA CardinalityOfConns == Cardinality(Conns) = 2 * MaxCalls
<1>1. 2 * MaxCalls \in Nat /\ 1 \in Nat /\ Conns = 1..(2 * MaxCalls)
  BY ServerAssumption DEF Conns
<1>2. 2 * MaxCalls \in Int /\ 1 \in Int
  BY <1>1
<1>3. Cardinality(1..(2 * MaxCalls)) =
        IF 1 > 2 * MaxCalls THEN 0 ELSE 2 * MaxCalls - 1 + 1
  BY <1>2, FS_Interval
<1> QED
  BY <1>1, <1>3

\* A set that grows by nothing is no larger; by one element, larger by one;
\* one that loses an element is smaller.
LEMMA Counting ==
    ASSUME NEW S, IsFiniteSet(S), NEW T, NEW t
    PROVE  /\ Cardinality(S) \in Nat
           /\ T \subseteq S => IsFiniteSet(T) /\ Cardinality(T) \in Nat
                                /\ Cardinality(T) <= Cardinality(S)
           /\ T \subseteq S \cup {t} =>
                IsFiniteSet(T) /\ Cardinality(T) \in Nat
                    /\ Cardinality(T) <= Cardinality(S) + 1
           /\ T \subseteq S \ {t} /\ t \in S =>
                IsFiniteSet(T) /\ Cardinality(T) \in Nat
                    /\ Cardinality(T) + 1 <= Cardinality(S)
<1>1. Cardinality(S) \in Nat
  BY FS_CardinalityType
<1>2. ASSUME NEW U, IsFiniteSet(U), T \subseteq U
      PROVE  IsFiniteSet(T) /\ Cardinality(T) \in Nat
                /\ Cardinality(T) <= Cardinality(U)
  BY <1>2, FS_Subset, FS_CardinalityType
<1>3. /\ IsFiniteSet(S \cup {t}) /\ Cardinality(S \cup {t}) \in Nat
      /\ Cardinality(S \cup {t}) <= Cardinality(S) + 1
  BY <1>1, FS_AddElement, FS_CardinalityType
<1>4. /\ IsFiniteSet(S \ {t})
      /\ t \in S => Cardinality(S \ {t}) = Cardinality(S) - 1
  BY <1>1, FS_RemoveElement
<1>5. T \subseteq S => IsFiniteSet(T) /\ Cardinality(T) \in Nat
                        /\ Cardinality(T) <= Cardinality(S)
  BY <1>2
<1>6. T \subseteq S \cup {t} => IsFiniteSet(T) /\ Cardinality(T) \in Nat
                        /\ Cardinality(T) <= Cardinality(S) + 1
  BY <1>1, <1>2, <1>3
<1>7. T \subseteq S \ {t} /\ t \in S =>
                        /\ IsFiniteSet(T) /\ Cardinality(T) \in Nat
                        /\ Cardinality(T) + 1 <= Cardinality(S)
  BY <1>1, <1>2, <1>4
<1> QED
  BY <1>1, <1>5, <1>6, <1>7

\* A step after which no more requests may create or pair keeps the count.
LEMMA QuietKeepsCount ==
    ASSUME Counted, made \in Nat, calls \in Nat,
           made' = made, calls' = calls,
           \A u \in Callers : /\ MayCreate(u)' => MayCreate(u)
                              /\ pc'[u] = "append" => pc[u] = "append"
    PROVE  Counted'
<1>1. Makers' \subseteq Makers /\ Pairers' \subseteq Pairers
  BY DEF Makers, Pairers
<1>2. IsFiniteSet(Makers) /\ IsFiniteSet(Pairers)
  BY DEF Counted
<1>3. /\ IsFiniteSet(Makers') /\ Cardinality(Makers') \in Nat
      /\ Cardinality(Makers') <= Cardinality(Makers)
      /\ Cardinality(Makers) \in Nat
  BY <1>1, <1>2, Counting
<1>4. /\ IsFiniteSet(Pairers') /\ Cardinality(Pairers') \in Nat
      /\ Cardinality(Pairers') <= Cardinality(Pairers)
      /\ Cardinality(Pairers) \in Nat
  BY <1>1, <1>2, Counting
<1>5. made + Cardinality(Makers) + Cardinality(Pairers) <= 2 * calls
  BY DEF Counted
<1> HIDE DEF Makers, Pairers
<1>6. made' + Cardinality(Makers') + Cardinality(Pairers') <= 2 * calls'
  BY <1>3, <1>4, <1>5
<1> QED
  BY <1>3, <1>4, <1>6 DEF Counted

\* A request that may create finds a connection left to make.
LEMMA RoomToCreate ==
    ASSUME Typed, NEW t \in Callers, MayCreate(t)
    PROVE  made + 1 \in Conns
<1>1. IsFiniteSet(Makers) /\ IsFiniteSet(Pairers) /\ t \in Makers
  BY DEF Typed, Counted, Makers
<1>2. Cardinality(Makers) \in Nat /\ Cardinality(Pairers) \in Nat
  BY <1>1, FS_CardinalityType
<1>3. 1 <= Cardinality(Makers)
  <2>1. {} \subseteq Makers \ {t}
    OBVIOUS
  <2>2. Cardinality({}) + 1 <= Cardinality(Makers)
    BY <1>1, <2>1, Counting
  <2> QED
    BY <2>2, FS_EmptySet
<1>4. made \in Nat /\ calls \in Nat /\ calls <= MaxCalls /\ MaxCalls \in Nat
  BY ServerAssumption, CardinalityOfConns DEF Typed, TypeOK
<1>5. made + Cardinality(Makers) + Cardinality(Pairers) <= 2 * calls
  BY DEF Typed, Counted
<1> QED
  BY <1>2, <1>3, <1>4, <1>5 DEF Conns

\* The threads are those of the requests and those of the events.
LEMMA ThreadFacts ==
    /\ Callers \subseteq Threads /\ Hook \in Threads /\ Sock \in Threads
    /\ Hook \notin Callers /\ Sock \notin Callers /\ Hook # Sock
    /\ None \notin Threads /\ None \notin Nat /\ None \notin Conns
BY ServerAssumption DEF Threads, Conns

\* The requests that wait, look and mark keep the types.
LEMMA MarkKeepsTypes ==
    ASSUME Typed, NEW t \in Callers,
           \/ Verify(t) \/ Lock(t) \/ Under(t) \/ CreateFails(t)
           \/ CheckState(t) \/ Attach(t) \/ Valid(t) \/ StopCheck(t)
           \/ StopSet(t)
    PROVE  TypeOK' /\ Kept'
<1> USE ThreadFacts DEF Typed, TypeOK, Kept, Goto, At, Labels, ServerStep,
        serverVars, dbVars, connVars, clientVars, budget, MarkVerified, Dialled,
        Saving
<1>1. CASE Verify(t)
  BY <1>1 DEF Verify
<1>2. CASE Lock(t)
  BY <1>2 DEF Lock
<1>3. CASE Under(t)
  BY <1>3 DEF Under
<1>4. CASE CreateFails(t)
  <2>1. pc' = [pc EXCEPT ![t] = "idle"] \/ pc' = [pc EXCEPT ![t] = "exists"]
    BY <1>4 DEF CreateFails
  <2>2. verified' \in BOOLEAN
    BY <1>4 DEF CreateFails
  <2>3. lock' = lock \/ lock' = None
    BY <1>4 DEF CreateFails
  <2>4. UNCHANGED <<connection, stopRequested, attached, dbVars, connVars,
                    clientVars, op, conn, budget>>
    BY <1>4 DEF CreateFails
  <2> QED
    BY <2>1, <2>2, <2>3, <2>4
<1>5. CASE CheckState(t)
  <2>1. /\ \/ pc' = [pc EXCEPT ![t] = "attach"]
           \/ pc' = [pc EXCEPT ![t] = "idle"]
        /\ stopRequested' \in BOOLEAN
    BY <1>5 DEF CheckState
  <2>2. UNCHANGED <<connection, verified, attached, lock, dbVars, connVars,
                    clientVars, op, conn, budget>>
    BY <1>5 DEF CheckState
  <2> QED
    BY <2>1, <2>2
<1>6. CASE Attach(t)
  <2>1. /\ pc' = [pc EXCEPT ![t] = "dial"]
        /\ attached' = TRUE /\ muted' = FALSE
        /\ UNCHANGED <<connection, verified, stopRequested, lock, row, deleted,
                       paired, connVars, clientVars, op, conn, budget>>
    BY <1>6 DEF Attach
  <2> QED
    BY <2>1, ZenonT(60)
<1>7. CASE Valid(t)
  <2>1. /\ \/ pc' = [pc EXCEPT ![t] = "exists"]
           \/ pc' = [pc EXCEPT ![t] = "idle"]
        /\ verified' \in BOOLEAN
    BY <1>7 DEF Valid
  <2>2. UNCHANGED <<connection, stopRequested, attached, lock, dbVars,
                    connVars, clientVars, op, conn, budget>>
    BY <1>7 DEF Valid
  <2> QED
    BY <2>1, <2>2
<1>8. CASE StopCheck(t)
  BY <1>8 DEF StopCheck, AllOps
<1>9. CASE StopSet(t)
  BY <1>9 DEF StopSet
<1> QED
  BY <1>1, <1>2, <1>3, <1>4, <1>5, <1>6, <1>7, <1>8, <1>9

\* So do the requests that dial, and those that stop.
LEMMA DialKeepsTypes ==
    ASSUME Typed, NEW t \in Callers,
           Connect(t) \/ SetConnecting(t) \/ Connected(t)
    PROVE  TypeOK' /\ Kept'
<1> USE ThreadFacts DEF Typed, TypeOK, Kept, Goto, At, Labels, Live,
        serverVars, dbVars, connVars, clientVars, budget, Dialled, Saving
<1>0. made \in Nat /\ made <= Cardinality(Conns)
  BY CardinalityOfConns, ServerAssumption
<1>1. CASE Connect(t)
  <2>1. \E l \in Labels : pc' = [pc EXCEPT ![t] = l] /\
            ( \/ conn' = conn /\ l \notin Dialled
              \/ connection \in 1..made /\ conn' = [conn EXCEPT ![t] = connection])
    BY <1>1 DEF Connect, AfterDial, Claim
  <2>2. UNCHANGED <<serverVars, dbVars, connVars, clientVars, op, budget>>
    BY <1>1 DEF Connect
  <2> QED
    BY <2>1, <2>2
<1>2. CASE SetConnecting(t)
  <2>1. /\ \E l \in Labels : pc' = [pc EXCEPT ![t] = l]
        /\ connecting' \in [Conns -> BOOLEAN] /\ failed' \in [Conns -> BOOLEAN]
        /\ conn[t] \in 1..made
    BY <1>2 DEF SetConnecting, Dialing
  <2>2. UNCHANGED <<serverVars, dbVars, made, session, disposed, closing,
                    clientVars, op, conn, budget>>
    BY <1>2 DEF SetConnecting
  <2> QED
    BY <2>1, <2>2
<1>3. CASE Connected(t)
  <2>1. /\ \E l \in {"valid", "redial", "disconnect"} :
                pc' = [pc EXCEPT ![t] = l]
        /\ connecting' \in [Conns -> BOOLEAN] /\ failed' \in [Conns -> BOOLEAN]
        /\ conn[t] \in 1..made
        /\ session' \in {session, [session EXCEPT ![conn[t]] = "open"]}
    BY <1>3 DEF Connected, AfterDial
  <2>2. UNCHANGED <<serverVars, dbVars, made, disposed, closing, clientVars,
                   op, conn, budget>>
    BY <1>3 DEF Connected
  <2> QED
    BY <2>1, <2>2
<1> QED
  BY <1>1, <1>2, <1>3

LEMMA StopKeepsTypes ==
    ASSUME Typed, NEW t \in Callers,
           \/ Disconnect(t) \/ Dispose(t) \/ DropConnection(t) \/ Clear(t)
           \/ DeleteConnection(t) \/ DeleteRow(t)
    PROVE  TypeOK' /\ Kept'
<1> USE ThreadFacts DEF Typed, TypeOK, Kept, Goto, At, Labels, Live, AllOps,
        ServerStep, serverVars, dbVars, connVars, clientVars, budget, Dialled,
        Saving
<1>0. made \in Nat /\ made <= Cardinality(Conns)
  BY CardinalityOfConns, ServerAssumption
<1>1. CASE Disconnect(t)
  <2>1. \/ pc' = [pc EXCEPT ![t] = "clear"] /\ conn' = conn
        \/ /\ connection \in 1..made /\ pc' = [pc EXCEPT ![t] = "dispose"]
           /\ conn' = [conn EXCEPT ![t] = connection]
    BY <1>1 DEF Disconnect
  <2>2. UNCHANGED <<serverVars, dbVars, connVars, clientVars, op, budget>>
    BY <1>1 DEF Disconnect
  <2> QED
    BY <2>1, <2>2
<1>2. CASE Dispose(t)
  <2>1. conn[t] \in 1..made
    BY <1>2 DEF Dispose
  <2>2. disposed' \subseteq 1..made /\ closing' \subseteq disposed'
    BY <1>2, <2>1 DEF Dispose, DisposeClient
  <2>3. /\ pc' = [pc EXCEPT ![t] = "nil"]
        /\ UNCHANGED <<session, serverVars, dbVars, made, connecting, failed,
                       clientVars, op, conn, budget>>
    BY <1>2 DEF Dispose
  <2> QED
    BY <2>2, <2>3
<1>3. CASE DropConnection(t)
  BY <1>3 DEF DropConnection
<1>4. CASE Clear(t)
  <2>1. \/ /\ pc' = [pc EXCEPT ![t] = "verify"]
           /\ op' = [op EXCEPT ![t] = "start"]
        \/ pc' = [pc EXCEPT ![t] = "idle"] /\ op' = op
    BY <1>4 DEF Clear
  <2>2. /\ attached' = FALSE /\ muted' \in BOOLEAN
        /\ UNCHANGED <<connection, verified, stopRequested, lock, row, deleted,
                       paired, connVars, clientVars, conn, budget>>
    <3>1. Running \in BOOLEAN /\ BeingDialed \in BOOLEAN
      BY DEF Running, BeingDialed
    <3> QED
      BY <1>4, <3>1 DEF Clear
  <2>3. /\ pc' \in [Threads -> Labels] /\ pc'[t] \notin Dialled
        /\ \A u \in Threads : u # t => pc'[u] = pc[u] /\ op'[u] = op[u]
        /\ op' \in [Threads -> AllOps \cup {"ready", "event"}]
    BY <2>1
  <2>4. Kept'
    BY <2>2, <2>3
  <2>5. TypeOK'
    BY <2>2, <2>3, ZenonT(60)
  <2> QED
    BY <2>4, <2>5
<1>5. CASE DeleteConnection(t)
  <2>1. /\ \E l \in {"delRow", "idle", "delNil"} : pc' = [pc EXCEPT ![t] = l]
        /\ UNCHANGED <<serverVars, dbVars, made, connecting, failed, deaf,
                       hooks, op, conn, budget>>
    BY <1>5 DEF DeleteConnection
  <2>2. \/ UNCHANGED <<session, disposed, closing, store>>
        \/ /\ connection \in 1..made
           /\ store' = FALSE
           /\ session' = [session EXCEPT ![connection] =
                                    IF @ = "open" THEN @ ELSE "offline"]
           /\ DisposeClient(connection)
    <3>1. connection = None \/ connection \in 1..made
      OBVIOUS
    <3> QED
      BY <1>5, <3>1 DEF DeleteConnection
  <2>3. CASE UNCHANGED <<session, disposed, closing, store>>
    BY <2>1, <2>3
  <2>4. CASE /\ connection \in 1..made
             /\ store' = FALSE
             /\ session' = [session EXCEPT ![connection] =
                                    IF @ = "open" THEN @ ELSE "offline"]
             /\ DisposeClient(connection)
    <3>1. disposed' \subseteq 1..made /\ closing' \subseteq disposed'
      BY <2>4 DEF DisposeClient
    <3>2. /\ session' \in [Conns -> {"offline", "retrying"} \cup Live]
          /\ \A c \in Conns : session'[c] # "offline" => session[c] # "offline"
      BY <2>4
    <3>3. /\ pc' \in [Threads -> Labels] /\ pc'[t] \notin Dialled
          /\ \A u \in Threads : u # t => pc'[u] = pc[u]
      BY <2>1
    <3>4. store' \in BOOLEAN
      BY <2>4
    <3>5. UNCHANGED <<serverVars, dbVars, made, connecting, failed, deaf,
                      hooks, op, conn, budget>>
      BY <2>1
    <3>6. TypeOK'
      BY <3>1, <3>2, <3>3, <3>4, <3>5
    <3>7. Kept'
      BY <3>1, <3>2, <3>3, <3>5
    <3> QED
      BY <3>6, <3>7
  <2>5. TypeOK' /\ Kept'
    <3> HIDE DEF TypeOK, Kept, DisposeClient
    <3> QED
      BY <2>2, <2>3, <2>4
  <2> QED
    BY <2>5
<1>6. CASE DeleteRow(t)
  <2>1. /\ pc' = [pc EXCEPT ![t] = "idle"]
        /\ row' = FALSE /\ deleted' = TRUE
        /\ UNCHANGED <<serverVars, paired, muted, connVars, clientVars, op,
                       conn, budget>>
    BY <1>6 DEF DeleteRow
  <2>2. /\ pc' \in [Threads -> Labels] /\ pc'[t] \notin Dialled
        /\ \A u \in Threads : u # t => pc'[u] = pc[u]
    BY <2>1
  <2>3. TypeOK'
    BY <2>1, <2>2, ZenonT(60)
  <2>4. Kept'
    BY <2>1, <2>2
  <2> QED
    BY <2>3, <2>4
<1> QED
  BY <1>1, <1>2, <1>3, <1>4, <1>5, <1>6

\* The save, of a request or of an event.
LEMMA SaveKeepsTypes ==
    ASSUME Typed, NEW t \in Threads, SaveStep(t)
    PROVE  TypeOK' /\ Kept'
<1> USE ThreadFacts DEF Typed, TypeOK, Kept, Goto, At, Labels, AllOps,
        ServerStep, serverVars, dbVars, connVars, clientVars, budget, Dialled,
        Saving
<1>1. CASE SaveExists(t)
  BY <1>1 DEF SaveExists
<1>2. CASE SaveWrites(t)
  <2>1. /\ row' \in BOOLEAN /\ lock' \in {lock, None}
        /\ UNCHANGED <<connection, verified, stopRequested, attached, deleted,
                       paired, muted, connVars, clientVars, conn, budget>>
    BY <1>2 DEF SaveWrites
  <2>2. \/ /\ op[t] = "pair" /\ pc' = [pc EXCEPT ![t] = "verify"]
           /\ op' = [op EXCEPT ![t] = "ready"]
        \/ t = Sock /\ pc' = [pc EXCEPT ![t] = "unregister"] /\ op' = op
        \/ t # Sock /\ pc' = [pc EXCEPT ![t] = "idle"] /\ op' = op
    BY <1>2 DEF SaveWrites
  <2> QED
    BY <1>2, <2>1, <2>2 DEF SaveWrites
<1> QED
  BY <1>1, <1>2 DEF SaveStep

\* Requests begin with an operation of Ops.
LEMMA BeginKeepsTypes ==
    ASSUME Typed, NEW t \in Callers, NEW o \in Ops, Begin(t, o)
    PROVE  TypeOK' /\ Kept'
<1> USE ThreadFacts DEF Typed, TypeOK, Kept, Goto, At, Labels, serverVars,
        dbVars, connVars, clientVars, Dialled, Saving
<1>1. o \in AllOps /\ MaxCalls \in Nat
  BY ServerAssumption
<1>2. pc' \in [Threads -> Labels] /\ pc'[t] \notin Dialled
        /\ \A u \in Threads : u # t => pc'[u] = pc[u]
  <2>1. \/ pc' = [pc EXCEPT ![t] = "verify"]
        \/ pc' = [pc EXCEPT ![t] = "stopCheck"]
        \/ pc' = [pc EXCEPT ![t] = "exists"]
        \/ pc' = [pc EXCEPT ![t] = "delConn"]
        \/ pc' = [pc EXCEPT ![t] = "append"]
    BY <1>1 DEF Begin, AllOps
  <2> QED
    BY <2>1
<1>3. /\ op' \in [Threads -> AllOps \cup {"ready", "event"}]
      /\ \A u \in Threads : u # t => op'[u] = op[u]
      /\ calls' \in 0..MaxCalls
  BY <1>1 DEF Begin
<1>4. UNCHANGED <<serverVars, dbVars, connVars, clientVars, conn, drops,
                  logouts>>
  BY DEF Begin
<1> QED
  BY <1>2, <1>3, <1>4

\* A new connection is the next one, and there is room for it.
LEMMA NewConnectionKeepsTypes ==
    ASSUME Typed, NEW t \in Callers, Create(t) \/ AppendPaired(t)
    PROVE  TypeOK' /\ Kept'
<1> USE ThreadFacts DEF Typed, TypeOK, Kept, At, Live, Dialled, Saving
<1>1. made + 1 \in Conns /\ made \in Nat /\ made + 1 <= Cardinality(Conns)
  <2>1. made + 1 \in Conns
    BY RoomToCreate DEF Create, AppendPaired, MayCreate
  <2> QED
    BY <2>1, CardinalityOfConns, ServerAssumption DEF Conns
<1>2. PICK s \in {"offline", "retrying"} : NewConnection(s)
  BY DEF Create, AppendPaired
<1>3. /\ pc' \in [Threads -> Labels] /\ pc'[t] \notin Dialled
      /\ \A u \in Threads : u # t => pc'[u] = pc[u]
  BY DEF Create, AppendPaired, Goto, Labels
<1>4. /\ lock' \in Threads \cup {None} /\ verified' \in BOOLEAN
      /\ store' \in BOOLEAN /\ paired' \in BOOLEAN /\ muted' \in BOOLEAN
      /\ UNCHANGED <<stopRequested, attached, row, deleted, deaf, hooks, op,
                     conn, budget>>
  BY DEF Create, AppendPaired, dbVars, clientVars
<1>5. /\ made' = made + 1 /\ connection' = made + 1
      /\ session' \in [Conns -> {"offline", "retrying"} \cup Live]
      /\ \A c \in Conns : c # made + 1 => session'[c] = session[c]
      /\ UNCHANGED <<connecting, failed, disposed, closing>>
  BY <1>1, <1>2 DEF NewConnection
<1>6. \A c : c \in 1..made => c \in 1..made'
  BY <1>1, <1>5
<1>7. /\ made' \in 0..Cardinality(Conns) /\ connection' \in 1..made'
      /\ connection' \in Conns
      /\ disposed' \subseteq 1..made' /\ closing' \subseteq disposed'
      /\ deaf' \subseteq 1..made' /\ hooks' \subseteq 1..made'
  <2>1. Cardinality(Conns) \in Nat
    BY CardinalityOfConns, ServerAssumption
  <2> QED
    BY <1>1, <1>4, <1>5, <1>6, <2>1
<1>8. TypeOK'
  BY <1>3, <1>4, <1>5, <1>7 DEF budget
<1>9. Kept'
  <2>1. \A c \in Conns : session'[c] # "offline" => c \in 1..made'
    <3>1. made + 1 \in 1..made'
      BY <1>1, <1>5
    <3> QED
      BY <1>5, <1>6, <3>1
  <2> QED
    BY <1>3, <1>4, <1>6, <1>7, <2>1
<1> QED
  BY <1>8, <1>9

\* The events of the session, and the goroutines that handle them.
LEMMA EventKeepsTypes ==
    ASSUME Typed, (\E c \in Conns : EventStep(c)) \/ LoggedOut \/ UnRegister
    PROVE  TypeOK' /\ Kept'
<1> USE ThreadFacts DEF Typed, TypeOK, Kept, Goto, At, Labels, Live,
        ServerStep, SessionStep, serverVars, dbVars, connVars, clientVars,
        budget, Dialled, Saving
<1>0. made \in Nat /\ MaxDrops \in Nat /\ MaxLogouts \in Nat
  BY CardinalityOfConns, ServerAssumption
<1>1. CASE LoggedOut
  <2>1. /\ \E l \in {"unregister", "exists"} : pc' = [pc EXCEPT ![Sock] = l]
        /\ verified' \in BOOLEAN /\ pc[Sock] # "idle"
    BY <1>1 DEF LoggedOut, MarkVerified
  <2>2. UNCHANGED <<connection, stopRequested, attached, lock, dbVars, connVars,
                    clientVars, op, conn, budget>>
    BY <1>1 DEF LoggedOut
  <2> QED
    BY <2>1, <2>2
<1>2. CASE UnRegister
  <2>1. conn[Sock] \in 1..made
    BY <1>2 DEF UnRegister
  <2>2. deaf' \subseteq 1..made
    BY <1>2, <2>1 DEF UnRegister
  <2>3. /\ pc' = [pc EXCEPT ![Sock] = "idle"] /\ pc[Sock] = "unregister"
        /\ UNCHANGED <<serverVars, dbVars, connVars, store, hooks, op, conn,
                       budget>>
    BY <1>2 DEF UnRegister
  <2> QED
    BY <2>2, <2>3
<1>3. ASSUME NEW c \in Conns, EventStep(c)
      PROVE  TypeOK' /\ Kept'
  <2>1. CASE Login(c)
    <3>1. c \in 1..made
      BY <2>1 DEF Login
    <3>2. /\ session' = [session EXCEPT ![c] = "online"]
          /\ hooks' \subseteq 1..made
          /\ UNCHANGED <<serverVars, dbVars, made, connecting, failed, disposed,
                         op, conn, calls, closing, deaf, store, pc, drops,
                         logouts>>
      BY <2>1, <3>1 DEF Login
    <3> QED
      BY <3>1, <3>2
  <2>2. CASE Drop(c)
    <3>1. c \in 1..made
      BY <2>2 DEF Drop
    <3>2. /\ session' = [session EXCEPT ![c] = "retrying"]
          /\ drops' \in 0..MaxDrops
          /\ UNCHANGED <<serverVars, dbVars, made, connecting, failed, disposed,
                         op, conn, calls, closing, clientVars, pc, logouts>>
      BY <1>0, <2>2 DEF Drop
    <3> QED
      BY <3>1, <3>2
  <2>3. CASE Reconnect(c)
    <3>1. c \in 1..made
      BY <2>3 DEF Reconnect
    <3> QED
      BY <2>3, <3>1 DEF Reconnect
  <2>4. CASE LogOut(c)
    <3>1. c \in 1..made
      BY <2>4 DEF LogOut
    <3>2. logouts' \in 0..MaxLogouts /\ store' \in BOOLEAN
      <4>1. /\ logouts < MaxLogouts /\ logouts' = logouts + 1
            /\ store' = FALSE
        BY <2>4 DEF LogOut
      <4>2. logouts \in 0..MaxLogouts
        OBVIOUS
      <4>3. logouts' \in 0..MaxLogouts
        BY <1>0, <4>1, <4>2
      <4>4. store' \in BOOLEAN
        BY <4>1
      <4> QED
        BY <4>3, <4>4
    <3>3. \/ UNCHANGED <<pc, conn>>
          \/ /\ pc' = [pc EXCEPT ![Sock] = "mark"]
             /\ conn' = [conn EXCEPT ![Sock] = c]
      BY <2>4 DEF LogOut
    <3>4. /\ session' = [session EXCEPT ![c] = "offline"]
          /\ UNCHANGED <<serverVars, dbVars, made, connecting, failed, disposed,
                         closing, op, calls, drops, deaf, hooks>>
      BY <2>4 DEF LogOut
    <3>5. /\ pc' \in [Threads -> Labels]
          /\ \A u \in Threads : u # Sock => pc'[u] = pc[u]
          /\ pc'[Sock] \in {pc[Sock], "mark"}
      BY <3>3
    <3>6. /\ conn' \in [Threads -> Conns \cup {None}]
          /\ \A u \in Threads : u # Sock => conn'[u] = conn[u]
          /\ conn'[Sock] \in {conn[Sock], c}
          /\ pc'[Sock] = "mark" => conn'[Sock] = c \/ pc'[Sock] = pc[Sock]
      BY <3>3
    <3>7. pc'[Sock] # "idle" => conn'[Sock] \in 1..made
      BY <3>1, <3>3, <3>4
    <3>8. TypeOK'
      BY <3>2, <3>4, <3>5, <3>6
    <3>9. /\ \A u \in Threads : conn'[u] \in 1..made' \cup {None}
          /\ \A u \in Callers : pc'[u] \in Dialled => conn'[u] \in 1..made'
      BY <3>1, <3>2, <3>4, <3>5, <3>6
    <3>10. \A d \in Conns : session'[d] # "offline" => d \in 1..made'
      BY <3>2, <3>4
    <3>11. pc'[Hook] = pc[Hook] /\ op' = op /\ made' = made
            /\ connection' = connection
      BY <3>2, <3>4, <3>5
    <3> QED
      BY <3>5, <3>7, <3>8, <3>9, <3>10, <3>11
  <2>5. CASE OnConnected(c)
    <3>1. /\ \E l \in {"idle", "exists"} : pc' = [pc EXCEPT ![Hook] = l]
          /\ verified' \in BOOLEAN /\ hooks' \subseteq 1..made
      BY <2>5 DEF OnConnected, MarkVerified
    <3>2. UNCHANGED <<connection, stopRequested, attached, lock, dbVars,
                      connVars, deaf, store, op, conn, budget>>
      BY <2>5 DEF OnConnected
    <3> QED
      BY <3>1, <3>2
  <2>6. CASE UnRegisterDisposed(c)
    BY <2>6 DEF UnRegisterDisposed
  <2>7. CASE CloseSession(c)
    BY <2>7 DEF CloseSession
  <2> QED
    BY <1>3, <2>1, <2>2, <2>3, <2>4, <2>5, <2>6, <2>7 DEF EventStep
<1> QED
  BY <1>1, <1>2, <1>3

\* No step but the first of a request, and those that create, raises the
\* count: a request never comes back to EnsureUnderlying.
LEMMA MostKeepCount ==
    ASSUME Typed,
           \/ \E t \in Callers : /\ CallStep(t) \/ SaveStep(t)
                                 /\ ~Create(t) /\ ~AppendPaired(t)
           \/ \E t \in {Hook, Sock} : SaveStep(t)
           \/ (\E c \in Conns : EventStep(c)) \/ LoggedOut \/ UnRegister
    PROVE  Counted' /\ Phases'
<1>0. Counted /\ Phases /\ made \in Nat /\ calls \in Nat /\ pc \in [Threads -> Labels]
        /\ op \in [Threads -> AllOps \cup {"ready", "event"}]
  BY ServerAssumption, CardinalityOfConns DEF Typed, TypeOK
<1>1. ASSUME NEW t \in Callers, CallStep(t) \/ SaveStep(t), ~Create(t),
             ~AppendPaired(t)
      PROVE  Counted' /\ Phases'
  <2> USE ThreadFacts, <1>0 DEF Goto, At, ServerStep, connVars, budget,
          Saving, Halting, MayCreate, MarkVerified, AfterDial, Claim, Dialing
  <2>1. made' = made /\ calls' = calls
    BY <1>1 DEF CallStep, SaveStep, Verify, Lock, Under, CreateFails,
         CheckState, Attach, Connect, SetConnecting, Connected, Valid,
         StopCheck, StopSet, Disconnect, Dispose, DropConnection, Clear,
         DeleteConnection, DeleteRow, SaveExists, SaveWrites
  <2>2. /\ pc' \in [Threads -> {pc'[u] : u \in Threads}]
        /\ \A u \in Callers : u # t => pc'[u] = pc[u] /\ op'[u] = op[u]
    <3>1. \E l : pc' = [pc EXCEPT ![t] = l]
      BY <1>1 DEF CallStep, SaveStep, Verify, Lock, Under, CreateFails,
         CheckState, Attach, Connect, SetConnecting, Connected, Valid,
         StopCheck, StopSet, Disconnect, Dispose, DropConnection, Clear,
         DeleteConnection, DeleteRow, SaveExists, SaveWrites
    <3>2. op' = op \/ \E l : op' = [op EXCEPT ![t] = l]
      BY <1>1 DEF CallStep, SaveStep, Verify, Lock, Under, CreateFails,
         CheckState, Attach, Connect, SetConnecting, Connected, Valid,
         StopCheck, StopSet, Disconnect, Dispose, DropConnection, Clear,
         DeleteConnection, DeleteRow, SaveExists, SaveWrites
    <3> QED
      BY <3>1, <3>2
  <2>3. /\ pc'[t] # "append" /\ (MayCreate(t)' => MayCreate(t))
        /\ op'[t] = "restart" => pc'[t] \in Halting \cup {"idle"}
        /\ op'[t] = "pair" => pc'[t] \in Saving \cup {"append", "idle"}
    <3> USE DEF Phases
    <3>1. CASE Verify(t) \/ Lock(t) \/ Under(t) \/ CreateFails(t)
      <4>1. /\ op' = op /\ pc[t] \in {"verify", "lock", "under", "create"}
            /\ \E l \in {"idle", "lock", "under", "create", "state", "exists"} :
                    pc' = [pc EXCEPT ![t] = l]
        BY <3>1 DEF Verify, Lock, Under, CreateFails
      <4> QED
        BY <4>1
    <3>2. CASE \/ CheckState(t) \/ Attach(t) \/ Connect(t)
               \/ SetConnecting(t) \/ Connected(t) \/ Valid(t)
      <4>1. /\ op' = op /\ op[t] \notin {"restart", "pair"}
            /\ \E l \in {"idle", "attach", "dial", "claim", "dialing", "redial",
                          "reclaim", "redialing", "valid", "disconnect",
                          "exists", "panic"} : pc' = [pc EXCEPT ![t] = l]
        <5>1. op[t] \notin {"restart", "pair"}
          BY <3>2 DEF CheckState, Attach, Connect, SetConnecting, Connected,
             Valid
        <5>2. CASE CheckState(t) \/ Attach(t)
          BY <5>1, <5>2 DEF CheckState, Attach
        <5>3. CASE Connect(t)
          BY <5>1, <5>3 DEF Connect
        <5>4. CASE SetConnecting(t) \/ Connected(t)
          BY <5>1, <5>4 DEF SetConnecting, Connected
        <5>5. CASE Valid(t)
          BY <5>1, <5>5 DEF Valid
        <5> QED
          BY <3>2, <5>2, <5>3, <5>4, <5>5
      <4> QED
        BY <4>1
    <3>3. CASE StopCheck(t) \/ StopSet(t) \/ Disconnect(t) \/ Dispose(t)
      <4>1. \/ /\ op' = op /\ pc[t] \in Halting
               /\ \E l \in (Halting \ {"stopCheck"}) \cup {"idle"} :
                        pc' = [pc EXCEPT ![t] = l]
            \/ /\ op[t] = "restart" /\ op' = [op EXCEPT ![t] = "start"]
               /\ pc' = [pc EXCEPT ![t] = "verify"] /\ pc[t] \in Halting
        BY <3>3 DEF StopCheck, StopSet, Disconnect, Dispose
      <4> QED
        BY <4>1
    <3>4. CASE Clear(t)
      <4>1. \/ /\ op' = op /\ pc[t] \in Halting
               /\ pc' = [pc EXCEPT ![t] = "idle"]
            \/ /\ op[t] = "restart" /\ op' = [op EXCEPT ![t] = "start"]
               /\ pc' = [pc EXCEPT ![t] = "verify"] /\ pc[t] \in Halting
        BY <3>4 DEF Clear
      <4> QED
        BY <4>1
    <3>5. CASE DropConnection(t) \/ DeleteConnection(t) \/ DeleteRow(t)
      <4>1. /\ op' = op
            /\ \/ pc[t] = "nil" /\ pc' = [pc EXCEPT ![t] = "clear"]
               \/ /\ pc[t] \in {"delNil", "delConn", "delRow"}
                  /\ \E l \in {"delNil", "delRow", "idle"} :
                        pc' = [pc EXCEPT ![t] = l]
        BY <3>5 DEF DropConnection, DeleteConnection, DeleteRow
      <4> QED
        BY <4>1
    <3>6. CASE SaveExists(t) \/ SaveWrites(t)
      <4>1. \/ /\ op' = op /\ pc[t] \in Saving
               /\ \E l \in Saving : pc' = [pc EXCEPT ![t] = l]
            \/ /\ op[t] = "pair" /\ op' = [op EXCEPT ![t] = "ready"]
               /\ pc' = [pc EXCEPT ![t] = "verify"] /\ pc[t] \in Saving
            \/ op' = op /\ pc' = [pc EXCEPT ![t] = "idle"]
        BY <3>6 DEF SaveExists, SaveWrites
      <4> QED
        BY <4>1
    <3> QED
      BY <1>1, <3>1, <3>2, <3>3, <3>4, <3>5, <3>6 DEF CallStep, SaveStep
  <2> QED
    BY <2>1, <2>2, <2>3, QuietKeepsCount DEF Phases
<1>2. ASSUME NEW t \in {Hook, Sock}, SaveStep(t)
      PROVE  Counted' /\ Phases'
  <2> USE ThreadFacts, <1>0 DEF Goto, ServerStep, connVars, budget, MayCreate
  <2>1. made' = made /\ calls' = calls
    BY <1>2 DEF SaveStep, SaveExists, SaveWrites
  <2>2. (\E l : pc' = [pc EXCEPT ![t] = l])
          /\ (op' = op \/ \E l : op' = [op EXCEPT ![t] = l])
    BY <1>2 DEF SaveStep, SaveExists, SaveWrites
  <2>3. \A u \in Callers : pc'[u] = pc[u] /\ op'[u] = op[u]
    BY <2>2
  <2> QED
    BY <2>1, <2>3, QuietKeepsCount DEF Phases
<1>3. ASSUME (\E c \in Conns : EventStep(c)) \/ LoggedOut \/ UnRegister
      PROVE  Counted' /\ Phases'
  <2> USE ThreadFacts, <1>0 DEF Goto, ServerStep, SessionStep, connVars,
          budget, MayCreate, MarkVerified
  <2>1. made' = made /\ calls' = calls
    BY <1>3 DEF EventStep, Login, Drop, Reconnect, LogOut, OnConnected,
         UnRegisterDisposed, CloseSession, LoggedOut, UnRegister
  <2>2. pc' = pc \/ \E t \in {Hook, Sock}, l \in Labels :
                        pc' = [pc EXCEPT ![t] = l]
    BY <1>3 DEF EventStep, Login, Drop, Reconnect, LogOut, OnConnected,
         UnRegisterDisposed, CloseSession, LoggedOut, UnRegister, Labels
  <2>3. op' = op
    BY <1>3 DEF EventStep, Login, Drop, Reconnect, LogOut, OnConnected,
         UnRegisterDisposed, CloseSession, LoggedOut, UnRegister
  <2>4. \A u \in Callers : pc'[u] = pc[u]
    BY <2>2
  <2> QED
    BY <2>1, <2>3, <2>4, QuietKeepsCount DEF Phases
<1> QED
  BY <1>1, <1>2, <1>3

\* A request adds two to what may be made at most.
LEMMA BeginKeepsCount ==
    ASSUME Typed, NEW t \in Callers, NEW o \in Ops, Begin(t, o)
    PROVE  Counted' /\ Phases'
<1>0. /\ made \in Nat /\ calls \in Nat /\ pc \in [Threads -> Labels]
      /\ op \in [Threads -> AllOps \cup {"ready", "event"}]
      /\ IsFiniteSet(Makers) /\ IsFiniteSet(Pairers)
      /\ made + Cardinality(Makers) + Cardinality(Pairers) <= 2 * calls
  BY ServerAssumption, CardinalityOfConns DEF Typed, TypeOK, Counted
<1>1. made' = made /\ calls' = calls + 1
        /\ \A u \in Callers : u # t => pc'[u] = pc[u] /\ op'[u] = op[u]
  BY <1>0, ThreadFacts DEF Begin, Goto, connVars
<1>2. Makers' \subseteq Makers \cup {t} /\ Pairers' \subseteq Pairers \cup {t}
  BY <1>1 DEF Makers, Pairers, MayCreate
<1>3. /\ IsFiniteSet(Makers') /\ Cardinality(Makers') \in Nat
      /\ Cardinality(Makers) \in Nat
      /\ Cardinality(Makers') <= Cardinality(Makers) + 1
  BY <1>0, <1>2, Counting
<1>4. /\ IsFiniteSet(Pairers') /\ Cardinality(Pairers') \in Nat
      /\ Cardinality(Pairers) \in Nat
      /\ Cardinality(Pairers') <= Cardinality(Pairers) + 1
  BY <1>0, <1>2, Counting
<1> HIDE DEF Makers, Pairers
<1>5. made' + Cardinality(Makers') + Cardinality(Pairers') <= 2 * calls'
  BY <1>0, <1>1, <1>3, <1>4
<1>6. Phases'
  <2>1. /\ op'[t] = "restart" => pc'[t] = "stopCheck"
        /\ op'[t] = "pair" => pc'[t] = "append"
    BY <1>0, ThreadFacts DEF Begin, Goto
  <2> QED
    BY <1>1, <2>1 DEF Typed, Phases, Halting, Saving
<1> QED
  BY <1>3, <1>4, <1>5, <1>6 DEF Counted

\* A connection that is made is one less to be made.
LEMMA NewConnectionKeepsCount ==
    ASSUME Typed, NEW t \in Callers, Create(t) \/ AppendPaired(t)
    PROVE  Counted' /\ Phases'
<1>0. /\ made \in Nat /\ calls \in Nat /\ pc \in [Threads -> Labels]
      /\ IsFiniteSet(Makers) /\ IsFiniteSet(Pairers)
      /\ made + Cardinality(Makers) + Cardinality(Pairers) <= 2 * calls
  BY ServerAssumption, CardinalityOfConns DEF Typed, TypeOK, Counted
<1>1. made' = made + 1 /\ calls' = calls /\ op' = op
        /\ \A u \in Callers : u # t => pc'[u] = pc[u]
  BY <1>0, ThreadFacts DEF Create, AppendPaired, Goto, NewConnection, budget
<1>2. \/ Makers' \subseteq Makers \ {t} /\ t \in Makers /\ Pairers' \subseteq Pairers
      \/ /\ Pairers' \subseteq Pairers \ {t} /\ t \in Pairers
         /\ Makers' \subseteq Makers
  <2>1. CASE Create(t)
    <3>1. pc[t] = "create" /\ pc'[t] = "state"
      BY <1>0, <2>1, ThreadFacts DEF Create, At, Goto
    <3> QED
      BY <1>1, <3>1 DEF Makers, Pairers, MayCreate, Saving, Halting
  <2>2. CASE AppendPaired(t)
    <3>1. pc[t] = "append" /\ pc'[t] = "exists"
      BY <1>0, <2>2, ThreadFacts DEF AppendPaired, At, Goto
    <3> QED
      BY <1>1, <3>1 DEF Makers, Pairers, MayCreate, Saving, Halting
  <2> QED
    BY <2>1, <2>2
<1>3. /\ IsFiniteSet(Makers') /\ Cardinality(Makers') \in Nat
      /\ Cardinality(Makers) \in Nat
      /\ Cardinality(Makers') <= Cardinality(Makers)
      /\ Makers' \subseteq Makers \ {t} /\ t \in Makers
            => Cardinality(Makers') + 1 <= Cardinality(Makers)
  <2>1. Makers' \subseteq Makers
    BY <1>2
  <2> QED
    BY <1>0, <2>1, Counting
<1>4. /\ IsFiniteSet(Pairers') /\ Cardinality(Pairers') \in Nat
      /\ Cardinality(Pairers) \in Nat
      /\ Cardinality(Pairers') <= Cardinality(Pairers)
      /\ Pairers' \subseteq Pairers \ {t} /\ t \in Pairers
            => Cardinality(Pairers') + 1 <= Cardinality(Pairers)
  <2>1. Pairers' \subseteq Pairers
    BY <1>2
  <2> QED
    BY <1>0, <2>1, Counting
<1> HIDE DEF Makers, Pairers
<1>5. \/ Cardinality(Makers') + 1 <= Cardinality(Makers)
      \/ Cardinality(Pairers') + 1 <= Cardinality(Pairers)
  BY <1>2, <1>3, <1>4
<1>6. made' + Cardinality(Makers') + Cardinality(Pairers') <= 2 * calls'
  BY <1>0, <1>1, <1>3, <1>4, <1>5
<1>7. Phases'
  <2>1. /\ pc[t] = "create" => op[t] \notin {"restart", "pair"}
        /\ pc[t] = "append" => op[t] # "restart" /\ pc'[t] \in Saving
        /\ pc[t] \in {"create", "append"}
    BY <1>0, ThreadFacts DEF Create, AppendPaired, Goto, At, Typed, Phases,
         Halting, Saving
  <2> QED
    BY <1>1, <2>1 DEF Typed, Phases
<1> QED
  BY <1>3, <1>4, <1>6, <1>7 DEF Counted

LEMMA StepKeepsTyped ==
    ASSUME Typed, Next
    PROVE  Typed'
<1>1. ASSUME NEW t \in Callers, CallStep(t) \/ SaveStep(t)
      PROVE  Typed'
  <2>1. CASE Create(t) \/ AppendPaired(t)
    BY <2>1, NewConnectionKeepsTypes, NewConnectionKeepsCount DEF Typed
  <2>2. CASE ~Create(t) /\ ~AppendPaired(t)
    <3>1. Counted' /\ Phases'
      BY <1>1, <2>2, MostKeepCount
    <3>2. TypeOK' /\ Kept'
      BY <1>1, <2>2, ThreadFacts, MarkKeepsTypes, DialKeepsTypes,
         StopKeepsTypes, SaveKeepsTypes DEF CallStep
    <3> QED
      BY <3>1, <3>2 DEF Typed
  <2> QED
    BY <2>1, <2>2
<1>2. ASSUME NEW t \in Callers, NEW o \in Ops, Begin(t, o)
      PROVE  Typed'
  BY <1>2, BeginKeepsTypes, BeginKeepsCount DEF Typed
<1>3. ASSUME NEW t \in {Hook, Sock}, SaveStep(t)
      PROVE  Typed'
  BY <1>3, ThreadFacts, SaveKeepsTypes, MostKeepCount DEF Typed
<1>4. CASE (\E c \in Conns : EventStep(c)) \/ LoggedOut \/ UnRegister
  BY <1>4, EventKeepsTypes, MostKeepCount DEF Typed
<1> QED
  BY <1>1, <1>2, <1>3, <1>4 DEF Next, Threads

LEMMA InitIsTyped == Init => Typed
<1> SUFFICES ASSUME Init PROVE Typed
  OBVIOUS
<1> USE ThreadFacts, ServerAssumption DEF Init
<1>1. TypeOK
  <2>1. made \in 0..Cardinality(Conns)
    BY CardinalityOfConns
  <2>2. calls \in 0..MaxCalls /\ drops \in 0..MaxDrops
          /\ logouts \in 0..MaxLogouts
    OBVIOUS
  <2>3. /\ pc \in [Threads -> Labels]
        /\ op \in [Threads -> AllOps \cup {"ready", "event"}]
        /\ conn \in [Threads -> Conns \cup {None}]
    BY DEF Labels
  <2>4. /\ session \in [Conns -> {"offline", "retrying"} \cup Live]
        /\ connecting \in [Conns -> BOOLEAN] /\ failed \in [Conns -> BOOLEAN]
    OBVIOUS
  <2> QED
    BY <2>1, <2>2, <2>3, <2>4 DEF TypeOK
<1>2. Kept
  BY DEF Kept, Dialled, Saving
<1>3. Counted
  <2>1. Makers = {} /\ Pairers = {}
    BY DEF Makers, Pairers, MayCreate, Saving, Halting
  <2> QED
    BY <2>1, FS_EmptySet DEF Counted
<1>4. Phases
  BY DEF Phases
<1> QED
  BY <1>1, <1>2, <1>3, <1>4 DEF Typed

LEMMA TypedIsInvariant == Spec => []Typed
<1>1. Typed /\ UNCHANGED vars => Typed'
  BY DEF vars, serverVars, dbVars, connVars, clientVars, budget, Typed, TypeOK,
     Kept, Counted, Phases, Makers, Pairers, MayCreate
<1>2. Typed /\ [Next]_vars => Typed'
  BY <1>1, StepKeepsTyped
<1> QED
  BY <1>2, InitIsTyped, PTL DEF Spec

\* The variables keep their types: above all, no request and no pairing makes
\* more connections than Conns has room for, and a client that is to be closed,
\* a deaf handler and a goroutine of OnConnected are those of a connection
\* that was made.
THEOREM TypeCorrect == Spec => []TypeOK
<1>1. Typed => TypeOK
  BY DEF Typed
<1> QED
  BY <1>1, TypedIsInvariant, PTL

-----------------------------------------------------------------------------
(***************************************************************************)
(* One request at a time, no pairing, no session lost on the way.  The     *)
(* calls of two requests undo each other's work, AppendPaired drops the    *)
(* connection it replaces, and Dispose does not close a session that is    *)
(* reconnecting: without those, the server's own connection is the only    *)
(* one that has a session.                                                 *)
(***************************************************************************)
OneAtATime(p) == Callers = {p} /\ "pair" \notin Ops /\ MaxDrops = 0

\* where the request is not about to use the connection it has read
Plain == {"idle", "verify", "lock", "under", "state", "attach", "dial", "redial",
    "valid", "exists", "update", "add", "stopCheck", "stopSet", "disconnect",
    "clear", "delConn", "delRow", "panic"}

\* what the only request has read is so, and a disposed connection is taken
\* from the server at once
Alone(p) ==
    /\ \A c \in Conns : session[c] # "retrying"
    /\ \A c \in Conns : connecting[c] =>
            pc[p] \in {"dialing", "redialing"} /\ conn[p] = c
    /\ pc[p] \in Dialled \cup {"nil"} => conn[p] = connection /\ connection # None
    /\ pc[p] = "create" => connection = None
    /\ pc[p] = "delNil" => connection # None
    /\ pc[p] \in Plain \cup Dialled \cup {"create", "nil", "delNil"}
    /\ op[p] # "pair"
    /\ connection \in disposed <=> pc[p] \in {"nil", "delNil"}

\* a session belongs to a connection that the server keeps, or closes
Owned(p) ==
    \A c \in Conns : session[c] \in Live =>
        c \in closing \/ (c = connection /\ pc[p] \notin {"nil", "delNil"})

Solo(p) == Typed /\ Alone(p) /\ Owned(p)

\* The only caller, and the types of what Alone and Owned are about.
LEMMA SoloFacts ==
    ASSUME NEW p, OneAtATime(p), Typed
    PROVE  /\ Callers = {p} /\ p \in Threads /\ p # Hook /\ p # Sock
           /\ pc \in [Threads -> Labels] /\ conn \in [Threads -> Conns \cup {None}]
           /\ op \in [Threads -> AllOps \cup {"ready", "event"}]
           /\ session \in [Conns -> {"offline", "retrying"} \cup Live]
           /\ connecting \in [Conns -> BOOLEAN]
           /\ connection \in Conns \cup {None} /\ None \notin Conns
           /\ disposed \subseteq Conns /\ closing \subseteq disposed
           /\ made \in Nat /\ 1..made \subseteq Conns
           /\ \A c \in Conns : session[c] # "offline" => c \in 1..made
           /\ disposed \subseteq 1..made
<1>1. made \in Nat /\ 1..made \subseteq Conns
  BY CardinalityOfConns, ServerAssumption DEF Typed, TypeOK, Conns
<1> QED
  BY <1>1, ThreadFacts DEF OneAtATime, Typed, TypeOK, Kept

\* A step from one place without a connection in hand to another.
LEMMA PlainKeepsAlone ==
    ASSUME NEW p, OneAtATime(p), Solo(p),
           pc[p] \in Plain \cup {"create"}, pc'[p] \in Plain, op'[p] # "pair",
           UNCHANGED <<connection, session, connecting, disposed, closing>>
    PROVE  Alone(p)' /\ Owned(p)'
BY SoloFacts DEF Solo, Alone, Owned, Plain, Dialled

\* The steps of the request that leave the connection alone.
LEMMA PlainSteps ==
    ASSUME NEW p, OneAtATime(p), Solo(p),
           \/ \E o \in Ops : Begin(p, o)
           \/ Verify(p) \/ Lock(p) \/ CreateFails(p) \/ CheckState(p)
           \/ Attach(p) \/ Valid(p) \/ StopCheck(p) \/ StopSet(p)
           \/ Clear(p) \/ DeleteRow(p) \/ SaveStep(p)
    PROVE  Alone(p)' /\ Owned(p)'
<1> USE SoloFacts DEF Solo, Goto, At, ServerStep, serverVars, connVars,
        MarkVerified
<1>1. UNCHANGED <<connection, session, connecting, disposed, closing>>
  BY DEF Begin, Verify, Lock, CreateFails, CheckState, Attach, Valid, StopCheck,
         StopSet, Clear, DeleteRow, SaveStep, SaveExists, SaveWrites
<1>2. pc[p] \in Plain \cup {"create"} /\ pc'[p] \in Plain /\ op'[p] # "pair"
  <2> USE DEF Plain, Alone
  <2>1. ASSUME NEW o \in Ops, Begin(p, o)
        PROVE  pc[p] = "idle" /\ pc'[p] \in Plain /\ op'[p] # "pair"
    <3>1. o \in AllOps \ {"pair"}
      BY ServerAssumption DEF OneAtATime
    <3>2. \E l \in {"verify", "stopCheck", "exists", "delConn"} :
                pc' = [pc EXCEPT ![p] = l]
      BY <2>1, <3>1 DEF Begin, AllOps
    <3>3. pc[p] = "idle" /\ op' = [op EXCEPT ![p] = o]
      BY <2>1 DEF Begin
    <3> QED
      BY <3>1, <3>2, <3>3
  <2>2. CASE Verify(p) \/ Lock(p) \/ CreateFails(p)
    BY <2>2 DEF Verify, Lock, CreateFails
  <2>3. CASE CheckState(p) \/ Attach(p)
    BY <2>3 DEF CheckState, Attach
  <2>4. CASE Valid(p)
    BY <2>4 DEF Valid
  <2>5. CASE StopCheck(p) \/ StopSet(p)
    BY <2>5 DEF StopCheck, StopSet
  <2>6. CASE Clear(p) \/ DeleteRow(p)
    BY <2>6 DEF Clear, DeleteRow
  <2>7. CASE SaveStep(p)
    BY <2>7 DEF SaveStep, SaveExists, SaveWrites
  <2> QED
    BY <2>1, <2>2, <2>3, <2>4, <2>5, <2>6, <2>7
<1> QED
  BY <1>1, <1>2, PlainKeepsAlone

\* The steps that read, make and dial the connection.
LEMMA DialSteps ==
    ASSUME NEW p, OneAtATime(p), Solo(p),
           Under(p) \/ Create(p) \/ Connect(p) \/ SetConnecting(p) \/ Connected(p)
    PROVE  Alone(p)' /\ Owned(p)'
<1> USE SoloFacts DEF Solo, Goto, At, ServerStep, serverVars, connVars
<1>1. CASE Under(p)
  <2>1. UNCHANGED <<connection, session, connecting, disposed, closing, op, conn>>
    BY <1>1 DEF Under
  <2>2. /\ pc[p] = "under"
        /\ \/ connection = None /\ pc' = [pc EXCEPT ![p] = "create"]
           \/ pc' = [pc EXCEPT ![p] = "state"]
    BY <1>1 DEF Under
  <2> QED
    BY <2>1, <2>2 DEF Alone, Owned, Plain, Dialled
<1>2. CASE Create(p)
  <2>1. /\ pc[p] = "create" /\ pc' = [pc EXCEPT ![p] = "state"]
        /\ session' = [session EXCEPT ![made + 1] = "offline"]
        /\ connection' = made + 1 /\ op' = op
        /\ UNCHANGED <<connecting, disposed, closing>>
    BY <1>2 DEF Create, NewConnection
  <2>2. connection = None /\ made + 1 \notin disposed
    BY <2>1 DEF Alone
  <2>3. \A c \in Conns : session'[c] = IF c = made + 1 THEN "offline" ELSE session[c]
    BY <2>1
  <2>4. "offline" \notin Live
    BY DEF Live
  <2> QED
    BY <2>1, <2>2, <2>3, <2>4 DEF Alone, Owned, Plain, Dialled
<1>3. CASE Connect(p)
  <2>1. /\ UNCHANGED <<connection, session, connecting, disposed, closing, op>>
        /\ pc[p] \in {"dial", "redial"}
    BY <1>3 DEF Connect
  <2>2. \A c \in Conns : ~connecting[c]
    BY <2>1 DEF Alone
  <2>3. \/ \E l \in {"valid", "panic"} : pc' = [pc EXCEPT ![p] = l]
        \/ /\ connection # None /\ conn' = [conn EXCEPT ![p] = connection]
           /\ \E l \in {"claim", "reclaim"} : pc' = [pc EXCEPT ![p] = l]
    BY <1>3, <2>2 DEF Connect, Claim
  <2>4. pc'[p] \in {"valid", "panic", "claim", "reclaim"}
          /\ (pc'[p] \in {"claim", "reclaim"} =>
                connection # None /\ conn'[p] = connection)
    BY <2>3
  <2> QED
    BY <2>1, <2>2, <2>4 DEF Alone, Owned, Plain, Dialled
<1>4. CASE SetConnecting(p)
  <2>1. /\ UNCHANGED <<connection, session, disposed, closing, op, conn>>
        /\ pc[p] \in {"claim", "reclaim"}
    BY <1>4 DEF SetConnecting
  <2>2. conn[p] = connection /\ conn[p] \in Conns /\ conn[p] \notin disposed
    BY <2>1 DEF Alone, Dialled
  <2>3. /\ connecting' = [connecting EXCEPT ![conn[p]] = TRUE]
        /\ \E l \in {"dialing", "redialing"} : pc' = [pc EXCEPT ![p] = l]
    BY <1>4, <2>2 DEF SetConnecting, Dialing
  <2>4. \A c \in Conns : connecting'[c] => c = conn[p] \/ connecting[c]
    BY <2>3
  <2>5. pc'[p] \in {"dialing", "redialing"}
    BY <2>3
  <2> QED
    BY <2>1, <2>2, <2>4, <2>5 DEF Alone, Owned, Plain, Dialled
<1>5. CASE Connected(p)
  <2>1. /\ UNCHANGED <<connection, disposed, closing, op, conn>>
        /\ pc[p] \in {"dialing", "redialing"}
        /\ connecting' = [connecting EXCEPT ![conn[p]] = FALSE]
        /\ session' \in {session, [session EXCEPT ![conn[p]] = "open"]}
    BY <1>5 DEF Connected
  <2>2. \E l \in {"valid", "redial", "disconnect"} : pc' = [pc EXCEPT ![p] = l]
    BY <1>5 DEF Connected, AfterDial
  <2>3. conn[p] = connection /\ conn[p] \in Conns /\ conn[p] \notin disposed
    BY <2>1 DEF Alone, Dialled
  <2>4. \A c \in Conns : ~connecting'[c]
    BY <2>1 DEF Alone
  <2>5. \A c \in Conns : session'[c] = session[c]
                            \/ (c = connection /\ session'[c] = "open")
    BY <2>1, <2>3
  <2>6. pc'[p] \in {"valid", "redial", "disconnect"}
    BY <2>2
  <2> QED
    BY <2>1, <2>3, <2>4, <2>5, <2>6 DEF Alone, Owned, Plain, Dialled
<1> QED
  BY <1>1, <1>2, <1>3, <1>4, <1>5

\* The steps that let the connection go: it is given to Dispose, and a session
\* it has to CloseSession, before the server's field is set to nil.
LEMMA DropSteps ==
    ASSUME NEW p, OneAtATime(p), Solo(p),
           Disconnect(p) \/ Dispose(p) \/ DropConnection(p) \/ DeleteConnection(p)
    PROVE  Alone(p)' /\ Owned(p)'
<1> USE SoloFacts DEF Solo, Goto, At, ServerStep, serverVars, connVars
<1>1. CASE Disconnect(p)
  <2>1. /\ UNCHANGED <<connection, session, connecting, disposed, closing, op>>
        /\ pc[p] = "disconnect"
    BY <1>1 DEF Disconnect
  <2>2. \A c \in Conns : ~connecting[c]
    BY <2>1 DEF Alone
  <2>3. \/ pc'[p] = "clear"
        \/ pc'[p] = "dispose" /\ connection # None /\ conn'[p] = connection
    BY <1>1 DEF Disconnect
  <2> QED
    BY <2>1, <2>2, <2>3 DEF Alone, Owned, Plain, Dialled
<1>2. CASE Dispose(p)
  <2>1. /\ UNCHANGED <<connection, session, connecting, op, conn>>
        /\ pc[p] = "dispose" /\ pc' = [pc EXCEPT ![p] = "nil"]
    BY <1>2 DEF Dispose
  <2>2. conn[p] = connection /\ conn[p] \in Conns /\ conn[p] \notin disposed
    BY <2>1 DEF Alone, Dialled
  <2>3. /\ disposed' = disposed \cup {connection}
        /\ closing' = IF session[connection] \in Live THEN closing \cup {connection}
                      ELSE closing
    BY <1>2, <2>1, <2>2 DEF Dispose, DisposeClient
  <2> QED
    BY <2>1, <2>2, <2>3 DEF Alone, Owned, Plain, Dialled
<1>3. CASE DropConnection(p)
  <2>1. /\ UNCHANGED <<session, connecting, disposed, closing, op, conn>>
        /\ connection' = None
        /\ pc[p] \in {"nil", "delNil"} /\ pc'[p] \in {"clear", "delRow"}
    BY <1>3 DEF DropConnection
  <2> QED
    BY <2>1 DEF Alone, Owned, Plain, Dialled
<1>4. CASE DeleteConnection(p)
  <2>1. /\ UNCHANGED <<connection, connecting, op, conn>> /\ pc[p] = "delConn"
    BY <1>4 DEF DeleteConnection
  <2>2. connection \notin disposed /\ \A c \in Conns : ~connecting[c]
    BY <2>1 DEF Alone, Plain
  <2>3. CASE pc'[p] \in {"delRow", "idle"}
               /\ UNCHANGED <<session, disposed, closing>>
    BY <2>1, <2>2, <2>3 DEF Alone, Owned, Plain, Dialled
  <2>4. CASE /\ connection # None /\ pc'[p] = "delNil"
             /\ session' = [session EXCEPT ![connection] =
                                    IF @ = "open" THEN @ ELSE "offline"]
             /\ DisposeClient(connection)
    <3>1. /\ disposed' = disposed \cup {connection}
          /\ closing' = IF session'[connection] \in Live
                        THEN closing \cup {connection} ELSE closing
      BY <2>2, <2>4 DEF DisposeClient
    <3>2. /\ \A c \in Conns : c # connection => session'[c] = session[c]
          /\ session'[connection] # "retrying"
      BY <2>4 DEF Alone
    <3> QED
      BY <2>1, <2>2, <2>4, <3>1, <3>2 DEF Alone, Owned, Plain, Dialled
  <2> QED
    BY <1>4, <2>2, <2>3, <2>4 DEF DeleteConnection
<1> QED
  BY <1>1, <1>2, <1>3, <1>4

\* What happens to the session in between: it logs in, is logged out, is closed.
LEMMA EventFacts ==
    ASSUME NEW p, OneAtATime(p), Solo(p),
           \/ \E c \in Conns : EventStep(c)
           \/ LoggedOut \/ UnRegister \/ SaveStep(Hook) \/ SaveStep(Sock)
    PROVE  /\ pc'[p] = pc[p] /\ op'[p] = op[p] /\ conn'[p] = conn[p]
           /\ UNCHANGED <<connection, connecting, disposed, attached,
                          stopRequested>>
           /\ \A c \in Conns : session'[c] # "retrying"
           /\ \A c \in Conns : session'[c] \in Live => session[c] \in Live
           /\ \A c \in closing \ closing' : session'[c] \notin Live
<1> USE SoloFacts, ThreadFacts DEF Solo, Goto, At, ServerStep, SessionStep,
        serverVars, connVars, MarkVerified
<1>1. /\ pc'[p] = pc[p] /\ op'[p] = op[p] /\ conn'[p] = conn[p]
      /\ UNCHANGED <<connection, connecting, disposed, attached, stopRequested>>
  <2>1. pc' = pc \/ \E t \in {Hook, Sock}, l \in Labels :
                        pc' = [pc EXCEPT ![t] = l]
    BY DEF EventStep, Login, Drop, Reconnect, LogOut, OnConnected, Labels,
       UnRegisterDisposed, CloseSession, LoggedOut, UnRegister, SaveStep,
       SaveExists, SaveWrites
  <2>2. op' = op \/ \E t \in {Hook, Sock}, o \in AllOps \cup {"ready"} :
                        op' = [op EXCEPT ![t] = o]
    BY DEF EventStep, Login, Drop, Reconnect, LogOut, OnConnected,
       UnRegisterDisposed, CloseSession, LoggedOut, UnRegister, SaveStep,
       SaveExists, SaveWrites
  <2>3. conn' = conn \/ \E c \in Conns : conn' = [conn EXCEPT ![Sock] = c]
    BY DEF EventStep, Login, Drop, Reconnect, LogOut, OnConnected,
       UnRegisterDisposed, CloseSession, LoggedOut, UnRegister, SaveStep,
       SaveExists, SaveWrites
  <2>4. UNCHANGED <<connection, connecting, disposed, attached, stopRequested>>
    BY DEF EventStep, Login, Drop, Reconnect, LogOut, OnConnected,
       UnRegisterDisposed, CloseSession, LoggedOut, UnRegister, SaveStep,
       SaveExists, SaveWrites
  <2> QED
    BY <2>1, <2>2, <2>3, <2>4
<1>2. /\ \A c \in Conns : session'[c] # "retrying"
      /\ \A c \in Conns : session'[c] \in Live => session[c] \in Live
      /\ \A c \in closing \ closing' : session'[c] \notin Live
  <2>1. ASSUME NEW c \in Conns, EventStep(c)
        PROVE  \/ UNCHANGED <<session, closing>>
               \/ /\ session[c] = "open" /\ closing' = closing
                  /\ session' = [session EXCEPT ![c] = "online"]
               \/ /\ closing' \in {closing, closing \ {c}}
                  /\ session' = [session EXCEPT ![c] = "offline"]
    <3>1. ~Drop(c)
      <4>1. drops \in 0..MaxDrops /\ MaxDrops = 0
        BY DEF Typed, TypeOK, OneAtATime
      <4> QED
        BY <4>1 DEF Drop
    <3>2. ~Reconnect(c)
      BY DEF Reconnect, Alone
    <3> QED
      BY <2>1, <3>1, <3>2 DEF EventStep, Login, LogOut, OnConnected,
         UnRegisterDisposed, CloseSession
  <2>2. CASE UNCHANGED <<session, closing>>
    BY <2>2 DEF Alone
  <2>3. CASE \E c \in Conns : EventStep(c)
    BY <2>1, <2>3 DEF Alone, Live
  <2> QED
    BY <2>2, <2>3 DEF LoggedOut, UnRegister, SaveStep, SaveExists, SaveWrites
<1> QED
  BY <1>1, <1>2

LEMMA EventSteps ==
    ASSUME NEW p, OneAtATime(p), Solo(p),
           \/ \E c \in Conns : EventStep(c)
           \/ LoggedOut \/ UnRegister \/ SaveStep(Hook) \/ SaveStep(Sock)
    PROVE  Alone(p)' /\ Owned(p)'
BY EventFacts DEF Solo, Alone, Owned

\* Every step of the requests and the events keeps Solo.
LEMMA StepKeepsSolo ==
    ASSUME NEW p, OneAtATime(p), Solo(p), Next
    PROVE  Solo(p)'
<1>1. ~AppendPaired(p)
  BY SoloFacts DEF AppendPaired, At, Solo, Alone, Plain, Dialled
<1>2. Typed'
  BY StepKeepsTyped DEF Solo
<1>3. CASE CallStep(p) \/ SaveStep(p) \/ \E o \in Ops : Begin(p, o)
  BY <1>1, <1>3, <1>2, PlainSteps, DialSteps, DropSteps DEF CallStep, Solo
<1>4. CASE \/ \E c \in Conns : EventStep(c)
           \/ LoggedOut \/ UnRegister \/ SaveStep(Hook) \/ SaveStep(Sock)
  BY <1>4, <1>2, EventSteps DEF Solo
<1> QED
  BY <1>3, <1>4 DEF Next, Threads, OneAtATime

LEMMA SoloIsInvariant ==
    ASSUME NEW p, OneAtATime(p)
    PROVE  Spec => []Solo(p)
<1>1. Init => Solo(p)
  <2> SUFFICES ASSUME Init PROVE Solo(p)
    OBVIOUS
  <2>1. Typed
    BY InitIsTyped
  <2> QED
    BY <2>1, SoloFacts DEF Init, Solo, Alone, Owned, Plain, Dialled, Live
<1>2. Solo(p) /\ UNCHANGED vars => Solo(p)'
  BY DEF vars, serverVars, dbVars, connVars, clientVars, budget, Typed, TypeOK,
     Kept, Counted, Phases, Makers, Pairers, MayCreate, Solo, Alone, Owned
<1>3. Solo(p) /\ [Next]_vars => Solo(p)'
  BY <1>2, StepKeepsSolo
<1> QED
  BY <1>1, <1>3, PTL DEF Spec

\* However many requests follow each other, and whatever dials fail: a session
\* is that of the server's own connection, or about to be closed.
THEOREM NoSessionIsLeft ==
    ASSUME NEW p, OneAtATime(p)
    PROVE  Spec => []LiveIsCurrent
<1>1. Solo(p) => LiveIsCurrent
  BY SoloFacts DEF Solo, Alone, Owned, LiveIsCurrent
<1> QED
  BY <1>1, SoloIsInvariant, PTL

-----------------------------------------------------------------------------
(***************************************************************************)
(* Why a Ready bot dispatches, or was silenced.  Only Clear takes the      *)
(* handler away, and it notes whether a client runs or is being dialed;    *)
(* only a dial brings a client up, after Attach; only a request that goes  *)
(* on to Attach takes back a Stop.                                         *)
(***************************************************************************)
Heard ==
    Running \/ BeingDialed =>
        attached \/ muted \/ stopRequested \/ \E t \in Callers : pc[t] = "attach"

\* A step that starts no client and keeps the handler and the waiting Attach.
LEMMA QuietKeepsHeard ==
    ASSUME Heard, Running' \/ BeingDialed' => Running \/ BeingDialed,
           UNCHANGED <<attached, muted, stopRequested>>,
           \A t \in Callers : pc[t] = "attach" => pc'[t] = "attach"
    PROVE  Heard'
BY DEF Heard

\* A step of one thread that is neither about to attach nor starts to dial.
LEMMA ThreadKeepsDials ==
    ASSUME Typed, NEW t \in Threads, NEW l \in Labels,
           pc' = pc \/ pc' = [pc EXCEPT ![t] = l],
           pc[t] # "attach" \/ pc' = pc, l \in Dials => pc[t] \in Dials
    PROVE  /\ BeingDialed' => BeingDialed
           /\ \A u \in Callers : pc[u] = "attach" => pc'[u] = "attach"
<1>1. pc \in [Threads -> Labels] /\ Callers \subseteq Threads
  BY DEF Typed, TypeOK, Threads
<1> QED
  BY <1>1 DEF BeingDialed

\* The requests, where they neither reach nor leave the handler.
LEMMA QuietCallsKeepHeard ==
    ASSUME Typed, Heard, NEW t \in Callers,
           \/ \E o \in Ops : Begin(t, o)
           \/ Verify(t) \/ Lock(t) \/ Under(t) \/ CreateFails(t) \/ Connect(t)
           \/ SetConnecting(t) \/ Valid(t) \/ StopCheck(t) \/ Disconnect(t)
           \/ Dispose(t) \/ DropConnection(t) \/ DeleteRow(t)
    PROVE  Heard'
<1> USE DEF Goto, At, ServerStep, serverVars, dbVars, connVars, MarkVerified
<1>1. UNCHANGED <<attached, muted, stopRequested>>
  BY DEF Begin, Verify, Lock, Under, CreateFails, Connect, SetConnecting, Valid,
     StopCheck, Disconnect, Dispose, DropConnection, DeleteRow
<1>2. Running' => Running
  <2>1. session' = session /\ connection' \in {connection, None}
    BY DEF Begin, Verify, Lock, Under, CreateFails, Connect, SetConnecting, Valid,
       StopCheck, Disconnect, Dispose, DropConnection, DeleteRow
  <2> QED
    BY <2>1 DEF Running
<1>3. \E l \in Labels :
        pc' = [pc EXCEPT ![t] = l] /\ pc[t] # "attach"
            /\ (l \in Dials => pc[t] \in Dials)
  <2> USE DEF Labels, Dials
  <2>1. ASSUME NEW o \in Ops, Begin(t, o)
        PROVE  /\ pc[t] = "idle"
               /\ \E l \in {"verify", "stopCheck", "exists", "delConn", "append"} :
                    pc' = [pc EXCEPT ![t] = l]
    <3>1. o \in AllOps
      BY ServerAssumption
    <3> QED
      BY <2>1, <3>1 DEF Begin, AllOps
  <2>2. CASE Verify(t) \/ Lock(t) \/ Under(t) \/ CreateFails(t)
    BY <2>2 DEF Verify, Lock, Under, CreateFails
  <2>3. CASE Connect(t)
    BY <2>3 DEF Connect, Claim, AfterDial
  <2>4. CASE SetConnecting(t)
    BY <2>4 DEF SetConnecting, Dialing
  <2>5. CASE Valid(t) \/ StopCheck(t)
    BY <2>5 DEF Valid, StopCheck
  <2>6. CASE Disconnect(t) \/ Dispose(t) \/ DropConnection(t) \/ DeleteRow(t)
    BY <2>6 DEF Disconnect, Dispose, DropConnection, DeleteRow
  <2> QED
    BY <2>1, <2>2, <2>3, <2>4, <2>5, <2>6
<1>4. PICK l \in Labels :
        pc' = [pc EXCEPT ![t] = l] /\ pc[t] # "attach"
            /\ (l \in Dials => pc[t] \in Dials)
  BY <1>3
<1>5. /\ BeingDialed' => BeingDialed
      /\ \A u \in Callers : pc[u] = "attach" => pc'[u] = "attach"
  <2>1. t \in Threads
    BY DEF Threads
  <2> QED
    BY ONLY <2>1, <1>4, Typed, ThreadKeepsDials
<1> QED
  BY <1>1, <1>2, <1>5, QuietKeepsHeard

\* The requests, where they give or take the handler or a client.
LEMMA LoudCallsKeepHeard ==
    ASSUME Typed, Heard, NEW t \in Callers,
           \/ Create(t) \/ AppendPaired(t) \/ CheckState(t) \/ Attach(t)
           \/ Connected(t) \/ StopSet(t) \/ Clear(t) \/ DeleteConnection(t)
    PROVE  Heard'
<1> USE DEF Goto, At, ServerStep, serverVars, dbVars, connVars
<1>1. /\ pc \in [Threads -> Labels] /\ t \in Threads /\ Callers \subseteq Threads
      /\ session \in [Conns -> {"offline", "retrying"} \cup Live]
      /\ connection \in Conns \cup {None}
  BY DEF Typed, TypeOK, Threads
<1>2. CASE Create(t)
  <2>1. /\ connection' \in Conns /\ connection' = made + 1
        /\ session' = [session EXCEPT ![made + 1] = "offline"]
    <3>1. made + 1 \in Conns
      BY <1>2, <1>1, RoomToCreate DEF Create, MayCreate
    <3> QED
      BY <1>2, <3>1 DEF Create, NewConnection
  <2>2. ~Running'
    BY <2>1, <1>1 DEF Running
  <2>3. pc[t] = "create" /\ pc' = [pc EXCEPT ![t] = "state"]
    BY <1>2 DEF Create
  <2>4. /\ BeingDialed' => BeingDialed
        /\ \A u \in Callers : pc[u] = "attach" => pc'[u] = "attach"
    BY <1>1, <2>3, ThreadKeepsDials DEF Labels, Dials
  <2>5. UNCHANGED <<attached, muted, stopRequested>>
    BY <1>2 DEF Create
  <2> QED
    BY <2>2, <2>4, <2>5, QuietKeepsHeard
<1>3. CASE AppendPaired(t)
  BY <1>3 DEF AppendPaired, Heard
<1>4. CASE CheckState(t)
  <2>1. CASE pc' = [pc EXCEPT ![t] = "attach"]
    BY <1>1, <2>1 DEF Heard
  <2>2. CASE pc' = [pc EXCEPT ![t] = "idle"] /\ stopRequested' = stopRequested
    <3>1. pc[t] = "state" /\ UNCHANGED <<attached, muted, connection, session>>
      BY <1>4 DEF CheckState
    <3>2. /\ BeingDialed' => BeingDialed
          /\ \A u \in Callers : pc[u] = "attach" => pc'[u] = "attach"
      BY <1>1, <2>2, <3>1, ThreadKeepsDials DEF Labels, Dials
    <3>3. Running' => Running
      BY <3>1 DEF Running
    <3> QED
      BY <2>2, <3>1, <3>2, <3>3, QuietKeepsHeard
  <2> QED
    BY <1>4, <2>1, <2>2 DEF CheckState
<1>5. CASE Attach(t)
  BY <1>5 DEF Attach, Heard
<1>6. CASE Connected(t)
  <2>1. BeingDialed
    BY <1>6 DEF Connected, BeingDialed, Dials
  <2>2. UNCHANGED <<attached, muted, stopRequested>>
    BY <1>6 DEF Connected
  <2>3. pc[t] # "attach" /\ \E l \in Labels : pc' = [pc EXCEPT ![t] = l]
    BY <1>6 DEF Connected, AfterDial, Labels
  <2>4. \A u \in Callers : pc[u] = "attach" => pc'[u] = "attach"
    BY <1>1, <2>3
  <2> QED
    BY <2>1, <2>2, <2>4, QuietKeepsHeard
<1>7. CASE StopSet(t)
  BY <1>7 DEF StopSet, Heard
<1>8. CASE Clear(t)
  <2>1. /\ UNCHANGED <<connection, session>> /\ muted' = (Running \/ BeingDialed)
        /\ pc[t] = "clear" /\ \E l \in {"verify", "idle"} : pc' = [pc EXCEPT ![t] = l]
    BY <1>8 DEF Clear
  <2>2. BeingDialed' => BeingDialed
    BY <1>1, <2>1, ThreadKeepsDials DEF Labels, Dials
  <2>3. Running' => Running
    BY <2>1 DEF Running
  <2> QED
    BY <2>1, <2>2, <2>3 DEF Heard
<1>9. CASE DeleteConnection(t)
  <2>1. /\ UNCHANGED <<connection, attached, muted, stopRequested>>
        /\ pc[t] = "delConn"
        /\ \E l \in {"delRow", "idle", "delNil"} : pc' = [pc EXCEPT ![t] = l]
    BY <1>9 DEF DeleteConnection
  <2>2. session' = session \/ session' = [session EXCEPT ![connection] =
                                    IF @ = "open" THEN @ ELSE "offline"]
    BY <1>9 DEF DeleteConnection
  <2>3. Running' => Running
    BY <1>1, <2>1, <2>2 DEF Running
  <2>4. /\ BeingDialed' => BeingDialed
        /\ \A u \in Callers : pc[u] = "attach" => pc'[u] = "attach"
    BY <1>1, <2>1, ThreadKeepsDials DEF Labels, Dials
  <2> QED
    BY <2>1, <2>3, <2>4, QuietKeepsHeard
<1> QED
  BY <1>2, <1>3, <1>4, <1>5, <1>6, <1>7, <1>8, <1>9

\* Saves and events: a session logs in, drops, comes back, is closed.
LEMMA OthersKeepHeard ==
    ASSUME Typed, Heard,
           \/ \E t \in Threads : SaveStep(t)
           \/ \E c \in Conns : EventStep(c)
           \/ LoggedOut \/ UnRegister
    PROVE  Heard'
<1> USE DEF Goto, At, ServerStep, SessionStep, serverVars, dbVars, connVars,
        MarkVerified
<1>1. UNCHANGED <<attached, muted, stopRequested, connection>>
  BY DEF EventStep, Login, Drop, Reconnect, LogOut, OnConnected,
     UnRegisterDisposed, CloseSession, LoggedOut, UnRegister, SaveStep,
     SaveExists, SaveWrites
<1>2. Running' => Running
  <2>1. ASSUME NEW c \in Conns, EventStep(c)
        PROVE  \/ session' = session
               \/ \E s : session' = [session EXCEPT ![c] = s]
                            /\ (s # "offline" => session[c] # "offline")
    <3> USE DEF Live
    <3>1. CASE Login(c) \/ Drop(c)
      BY <3>1 DEF Login, Drop
    <3>2. CASE Reconnect(c)
      BY <3>2 DEF Reconnect
    <3>3. CASE LogOut(c) \/ CloseSession(c)
      BY <3>3 DEF LogOut, CloseSession
    <3>4. CASE OnConnected(c) \/ UnRegisterDisposed(c)
      BY <3>4 DEF OnConnected, UnRegisterDisposed
    <3> QED
      BY <2>1, <3>1, <3>2, <3>3, <3>4 DEF EventStep
  <2>2. session \in [Conns -> {"offline", "retrying"} \cup Live]
          /\ connection \in Conns \cup {None}
    BY DEF Typed, TypeOK
  <2>3. CASE \E c \in Conns : EventStep(c)
    <3>1. PICK c \in Conns : EventStep(c)
      BY <2>3
    <3>2. \A d \in Conns : session'[d] # "offline" => session[d] # "offline"
      BY <2>1, <2>2, <3>1
    <3> QED
      BY ONLY <1>1, <2>2, <3>2 DEF Running
  <2>4. CASE ~\E c \in Conns : EventStep(c)
    <3>1. session' = session
      BY <2>4 DEF LoggedOut, UnRegister, SaveStep, SaveExists, SaveWrites
    <3> QED
      BY <1>1, <3>1 DEF Running
  <2> QED
    BY <2>3, <2>4
<1>3. \E t \in Threads, l \in Labels \ Dials :
            pc' = pc \/ (pc' = [pc EXCEPT ![t] = l] /\ pc[t] # "attach")
  <2> USE DEF Labels, Dials
  <2>1. Hook \in Threads /\ Sock \in Threads
    BY DEF Threads
  <2>2. ASSUME NEW c \in Conns, EventStep(c)
        PROVE  \/ pc' = pc
               \/ \E t \in {Hook, Sock}, l \in {"mark", "exists", "idle"} :
                    pc' = [pc EXCEPT ![t] = l] /\ pc[t] = "idle"
    BY <2>2 DEF EventStep, Login, Drop, Reconnect, LogOut, OnConnected,
       UnRegisterDisposed, CloseSession
  <2>3. CASE LoggedOut \/ UnRegister
    BY <2>1, <2>3 DEF LoggedOut, UnRegister
  <2>4. ASSUME NEW t \in Threads, SaveStep(t)
        PROVE  /\ pc[t] # "attach"
               /\ \E l \in {"update", "add", "verify", "unregister", "idle"} :
                    pc' = [pc EXCEPT ![t] = l]
    BY <2>4 DEF SaveStep, SaveExists, SaveWrites
  <2>5. CASE \E c \in Conns : EventStep(c)
    BY <2>1, <2>2, <2>5
  <2>6. CASE \E t \in Threads : SaveStep(t)
    BY <2>4, <2>6
  <2> QED
    BY <2>3, <2>5, <2>6
<1> QED
  BY <1>1, <1>2, <1>3, ThreadKeepsDials, QuietKeepsHeard

LEMMA StepKeepsHeard ==
    ASSUME Typed, Heard, Next
    PROVE  Heard'
<1>1. CASE \E t \in Callers : CallStep(t) \/ \E o \in Ops : Begin(t, o)
  BY <1>1, QuietCallsKeepHeard, LoudCallsKeepHeard DEF CallStep
<1>2. CASE \/ \E t \in Threads : SaveStep(t)
           \/ \E c \in Conns : EventStep(c)
           \/ LoggedOut \/ UnRegister
  BY <1>2, OthersKeepHeard
<1> QED
  BY <1>1, <1>2 DEF Next

\* However many requests at once, and whatever drops, pairings and logouts: a
\* bot that reports "Ready and Fully operational" with no request under way hands
\* its messages to the dispatcher, unless Handler.Clear ran while its client was
\* reconnecting or being dialed, or a pairing brought a connection without the
\* handler, and no Register has followed.
THEOREM ReadyBotDispatches == Spec => []ReadyIsAttached
<1>1. Init => Heard
  BY DEF Init, Heard, Running, BeingDialed, Dials, Threads
<1>2. Heard /\ UNCHANGED vars => Heard'
  BY DEF vars, serverVars, dbVars, connVars, Heard, Running, BeingDialed
<1>3. Typed /\ Heard /\ [Next]_vars => Heard'
  BY <1>2, StepKeepsHeard
<1>4. Heard => ReadyIsAttached
  <2> SUFFICES ASSUME Heard, \A t \in Callers : pc[t] = "idle", State = "Ready"
               PROVE  attached \/ muted
    BY DEF ReadyIsAttached, At
  <2>1. connection # None /\ ~stopRequested
    BY DEF State, ConnectionState
  <2>2. session[connection] = "online"
    BY <2>1 DEF State, ConnectionState
  <2> QED
    BY <2>1, <2>2 DEF Heard, Running
<1> QED
  BY <1>1, <1>3, <1>4, TypedIsInvariant, PTL DEF Spec
=============================================================================
