------------------------- MODULE ControlPlane_proofs -------------------------
(***************************************************************************)
(* Proofs about ControlPlane.  They rest on the order all handlers keep    *)
(* (RoutesAssumption, which TLC evaluates for every route of Routes): what *)
(* a goroutine still has to do says what it has done, and so what it has   *)
(* in its hands.                                                           *)
(***************************************************************************)
EXTENDS ControlPlane, FiniteSetTheorems, SequenceTheorems, TLAPS

(***************************************************************************)
(* The types.                                                              *)
(***************************************************************************)
Row == [wid : Nat, conf : 0..1]
Object == [token : Tokens, wid : Nat, conf : 0..1, conn : Nat]
Thread == [todo : Seq(Steps), token : Tokens \cup {None}, bot : Nat, conn : Nat,
           found : BOOLEAN, created : BOOLEAN, ready : BOOLEAN, torn : BOOLEAN,
           did : BOOLEAN, answer : Answers]

TypeInv ==
    /\ rows \in [Tokens -> Row \cup {None}]
    /\ IsFiniteSet(DOMAIN heap) /\ DOMAIN heap \subseteq Nat \ {0}
    /\ heap \in [DOMAIN heap -> Object]
    /\ bots \in [Tokens -> {0} \cup DOMAIN heap]
    /\ \A t \in Tokens : bots[t] # 0 => heap[bots[t]].token = t
    /\ made \in Nat /\ conns \subseteq 1..made /\ up \subseteq conns
    /\ pairing \in [DOMAIN pairing -> Tokens \cup {None}]
    /\ starting \subseteq DOMAIN heap
    /\ clash \subseteq Tokens /\ unsaved \subseteq Tokens
    /\ th \in [Procs -> Thread]

(***************************************************************************)
(* What a goroutine has, by the steps it still has to take.                *)
(***************************************************************************)
HeadIn(r, steps) == r.todo # <<>> /\ r.todo[1] \in steps

InOrder(r) ==
    /\ Orderly(r.todo)
    /\ r.bot \in {0} \cup DOMAIN heap
    /\ r.bot # 0 => heap[r.bot].token = r.token
    /\ r.todo # <<>> => r.token \in Tokens
    /\ r.bot = 0 => Preceded(r.todo, UsesBot, Finds)
    /\ r.conn = 0 => Preceded(r.todo, UsesConn, Takes)
    /\ r.ready \/ r.conn # 0 => Range(r.todo) \cap Rebinds = {}
    /\ r.created => HeadIn(r, {"exists", "write"}) /\ r.bot # 0
    /\ \A i \in DOMAIN r.todo : r.todo[i] = "pair" => i = 1
    /\ r.todo # <<>> => r.answer = "none"
    /\ r.answer = "panic" /\ r.ready => r.torn

(***************************************************************************)
(* Sessions.                                                               *)
(***************************************************************************)
Waiting(r) == HeadIn(r, {"pair"})

\* nobody took the connection of the bot away
Keeps(r) ==
    r.todo # <<>> /\ ~r.torn =>
        /\ r.conn # 0 => /\ r.conn \in conns
                         /\ \/ r.conn \in replaced \/ Waiting(r)
                            \/ r.bot # 0 /\ heap[r.bot].conn = r.conn
        /\ r.ready => r.bot # 0 /\ heap[r.bot].conn # 0

\* a connection is of one object, waits for its phone, was replaced, or belongs
\* to the pairing at work
Apart ==
    /\ replaced \subseteq conns /\ DOMAIN pairing \subseteq conns \ replaced
    /\ \A o \in DOMAIN heap : heap[o].conn # 0 =>
          /\ heap[o].conn \in conns \ (DOMAIN pairing \cup replaced)
          /\ \A x \in DOMAIN heap : heap[x].conn = heap[o].conn => x = o
    /\ \A p \in Procs : th[p].conn \in (0..made) \ DOMAIN pairing
    /\ \A p \in Procs : Waiting(th[p]) =>
          /\ th[p].conn \in conns \ replaced
          /\ \A o \in DOMAIN heap : heap[o].conn # th[p].conn
          /\ \A q \in Procs \ {p} : th[q].conn # th[p].conn

\* somebody stands for every session
Owned ==
    /\ \A o \in DOMAIN heap : heap[o].conn # 0 =>
          bots[heap[o].token] = o \/ heap[o].token \in clash
    /\ \A c \in conns : \/ c \in replaced \cup DOMAIN pairing
                        \/ \E o \in DOMAIN heap : heap[o].conn = c
                        \/ \E p \in Procs : Waiting(th[p]) /\ th[p].conn = c

(***************************************************************************)
(* Two that use one bot, one of them to make or delete it.                 *)
(***************************************************************************)
InUse(r) == r.bot # 0 \/ HeadIn(r, {"settle", "pair"})
IsMaking(r) == InUse(r) /\ (Range(r.todo) \cap MakesOrDeletes # {} \/ r.created)
IsChanging(r) == InUse(r) /\ Range(r.todo) \cap Writes # {}

ClashInv ==
    \A p, q \in Procs :
        p # q /\ th[p].token = th[q].token /\ IsMaking(th[p]) /\ IsChanging(th[q])
        => th[p].token \in clash

(***************************************************************************)
(* What a goroutine may rely on unless there was a clash.                  *)
(***************************************************************************)
Relies(r) ==
    r.todo # <<>> /\ r.token \notin clash =>
        /\ Range(r.todo) \cap Writes # {} /\ (r.bot # 0 \/ HeadIn(r, {"settle"})) =>
              bots[r.token] = r.bot
        /\ r.created \/ HeadIn(r, {"clear", "delete", "forget"}) => heap[r.bot].conn = 0
        /\ r.created \/ HeadIn(r, {"forget"}) => rows[r.token] = None
        /\ HeadIn(r, {"write"}) /\ r.found => rows[r.token] # None

(***************************************************************************)
(* Memory and table.                                                       *)
(***************************************************************************)
Agree(t) ==
    IF Registered(t)
    THEN rows[t] = [wid |-> heap[bots[t]].wid, conf |-> heap[bots[t]].conf]
    ELSE rows[t] = None

\* somebody is to save the bot, or to take it out of the map
Pending(t) ==
    \E p \in Procs : th[p].token = t /\ HeadIn(th[p], {"exists", "write", "forget"})

RowsInv ==
    /\ \A t, u \in Tokens : rows[t] # None /\ rows[u] # None /\ rows[t].wid = rows[u].wid => t = u
    /\ \A t \in Tokens \ clash : ~Registered(t) => rows[t] = None
    /\ \A t \in Tokens \ (clash \cup unsaved) : Agree(t) \/ Pending(t)

Inv == /\ TypeInv /\ ClashInv /\ Apart /\ Owned /\ RowsInv
       /\ \A p \in Procs : InOrder(th[p]) /\ Keeps(th[p]) /\ Relies(th[p])

(***************************************************************************)
(* Sequences of steps.                                                     *)
(***************************************************************************)
\* what is left of s after n steps
Rest(s, n) == SubSeq(s, n + 1, Len(s))

LEMMA RestType ==
    ASSUME NEW s \in Seq(Steps), NEW n \in 1..Len(s)
    PROVE  /\ Rest(s, n) \in Seq(Steps) /\ Len(Rest(s, n)) = Len(s) - n
           /\ DOMAIN Rest(s, n) = 1..(Len(s) - n)
           /\ \A i \in 1..(Len(s) - n) : Rest(s, n)[i] = s[i + n]
           /\ DOMAIN s = 1..Len(s) /\ Len(s) \in Nat
<1>1. Len(s) \in Nat /\ DOMAIN s = 1..Len(s)
      OBVIOUS
<1> n \in Nat /\ 1 <= n /\ n <= Len(s)
      BY <1>1
<1>2. \A i \in (n + 1)..Len(s) : s[i] \in Steps
      BY <1>1
<1>3. /\ Rest(s, n) \in Seq(Steps)
      /\ Len(Rest(s, n)) = IF n + 1 <= Len(s) THEN Len(s) - (n + 1) + 1 ELSE 0
      /\ \A i \in 1..(Len(s) - (n + 1) + 1) : Rest(s, n)[i] = s[(n + 1) + i - 1]
      BY <1>1, <1>2, SubSeqProperties, n + 1 \in Int DEF Rest
<1>4. Len(Rest(s, n)) = Len(s) - n
  <2>1. CASE n = Len(s)
    <3>1. ~(n + 1 <= Len(s)) /\ Len(s) - n = 0
          BY <1>1, <2>1
    <3>2. QED
          BY <1>3, <3>1
  <2>2. CASE n < Len(s)
    <3>1. n + 1 <= Len(s) /\ Len(s) - (n + 1) + 1 = Len(s) - n
          BY <1>1, <2>2
    <3>2. QED
          BY <1>3, <3>1
  <2>3. n = Len(s) \/ n < Len(s)
      BY Len(s) \in Nat
  <2>4. QED
      BY <2>1, <2>2, <2>3
<1>5. ASSUME NEW i \in 1..(Len(s) - n) PROVE Rest(s, n)[i] = s[i + n]
  <2>1. i \in 1..(Len(s) - (n + 1) + 1)
      BY <1>1
  <2>2. (n + 1) + i - 1 = i + n
      BY <1>1
  <2>3. QED
      BY <1>3, <2>1, <2>2
<1>6. DOMAIN Rest(s, n) = 1..(Len(s) - n)
      BY <1>3, <1>4
<1>7. QED
      BY <1>1, <1>3, <1>4, <1>5, <1>6

LEMMA RestRange ==
    ASSUME NEW s \in Seq(Steps), NEW n \in 1..Len(s)
    PROVE  Range(Rest(s, n)) \subseteq Range(s)
<1>1. /\ DOMAIN Rest(s, n) = 1..(Len(s) - n) /\ DOMAIN s = 1..Len(s) /\ Len(s) \in Nat
      /\ \A i \in 1..(Len(s) - n) : Rest(s, n)[i] = s[i + n]
      BY RestType
<1>2. ASSUME NEW i \in DOMAIN Rest(s, n)
      PROVE  i + n \in DOMAIN s /\ Rest(s, n)[i] = s[i + n]
      BY <1>1
<1>3. QED
      BY <1>2 DEF Range

LEMMA RestOrderly ==
    ASSUME NEW s \in Seq(Steps), NEW n \in 1..Len(s), Orderly(s)
    PROVE  Orderly(Rest(s, n))
<1> DEFINE u == Rest(s, n)
<1>1. /\ Len(u) = Len(s) - n /\ DOMAIN u = 1..(Len(s) - n) /\ DOMAIN s = 1..Len(s)
      /\ \A i \in 1..(Len(s) - n) : u[i] = s[i + n]
      /\ Len(s) \in Nat
      BY RestType
<1> HIDE DEF u
<1>2. Chained(u)
  <2> SUFFICES ASSUME NEW i \in DOMAIN u
               PROVE  /\ u[i] \in DOMAIN Follows => i < Len(u) /\ u[i + 1] = Follows[u[i]]
                      /\ u[i] \in {"write", "forget"} => i = Len(u)
                      /\ i > 1 /\ u[i] \in Range(Follows) =>
                            u[i - 1] \in DOMAIN Follows /\ Follows[u[i - 1]] = u[i]
      BY DEF Chained
  <2>1. i \in 1..(Len(s) - n) /\ i + n \in DOMAIN s /\ u[i] = s[i + n]
      BY <1>1
  <2>2. /\ s[i + n] \in DOMAIN Follows =>
              i + n < Len(s) /\ s[i + n + 1] = Follows[s[i + n]]
        /\ s[i + n] \in {"write", "forget"} => i + n = Len(s)
        /\ i + n > 1 /\ s[i + n] \in Range(Follows) =>
              s[i + n - 1] \in DOMAIN Follows /\ Follows[s[i + n - 1]] = s[i + n]
    <3>1. Chained(s)
          BY DEF Orderly
    <3>2. QED
          BY <2>1, <3>1 DEF Chained
  <2>3. u[i] \in DOMAIN Follows => i < Len(u) /\ u[i + 1] = Follows[u[i]]
    <3>1. i < Len(u) => u[i + 1] = s[i + n + 1]
          BY <1>1, <2>1
    <3>2. QED
          BY <1>1, <2>1, <2>2, <3>1
  <2>4. i > 1 => u[i - 1] = s[i + n - 1]
      BY <1>1, <2>1
  <2>5. QED
      BY <1>1, <2>1, <2>2, <2>3, <2>4
<1>3. ASSUME NEW X, NEW Y, NeverAfter(s, X, Y) PROVE NeverAfter(u, X, Y)
  <2> SUFFICES ASSUME NEW i \in DOMAIN u, NEW j \in DOMAIN u, i < j, u[i] \in X
               PROVE  u[j] \notin Y
      BY DEF NeverAfter
  <2>1. u[i] = s[i + n] /\ u[j] = s[j + n] /\ i + n \in DOMAIN s /\ j + n \in DOMAIN s
      BY <1>1
  <2>2. i + n < j + n
      BY <1>1
  <2>3. QED
      BY <1>3, <2>1, <2>2 DEF NeverAfter
<1>4. QED
      BY <1>2, <1>3 DEF Orderly, u

LEMMA RestPreceded ==
    ASSUME NEW s \in Seq(Steps), NEW n \in 1..Len(s), NEW first, NEW later,
           Preceded(s, later, first), \A i \in 1..n : s[i] \notin first
    PROVE  Preceded(Rest(s, n), later, first)
<1> SUFFICES ASSUME NEW j \in DOMAIN Rest(s, n), Rest(s, n)[j] \in later
             PROVE  \E i \in 1..(j - 1) : Rest(s, n)[i] \in first
    BY DEF Preceded
<1>1. /\ j \in 1..(Len(s) - n) /\ DOMAIN s = 1..Len(s) /\ Len(s) \in Nat
      /\ \A i \in 1..(Len(s) - n) : Rest(s, n)[i] = s[i + n]
      BY RestType
<1>2. PICK i \in 1..(j + n - 1) : s[i] \in first
      BY <1>1 DEF Preceded
<1>3. i > n
      BY <1>1, <1>2
<1>4. i - n \in 1..(j - 1) /\ Rest(s, n)[i - n] = s[i]
      BY <1>1, <1>2, <1>3
<1>5. QED
      BY <1>2, <1>4

LEMMA RestAvoids ==
    ASSUME NEW s \in Seq(Steps), NEW n \in 1..Len(s), NEW first, NEW later,
           NeverAfter(s, first, later), s[n] \in first
    PROVE  Range(Rest(s, n)) \cap later = {}
<1>1. /\ DOMAIN Rest(s, n) = 1..(Len(s) - n) /\ DOMAIN s = 1..Len(s) /\ Len(s) \in Nat
      /\ \A i \in 1..(Len(s) - n) : Rest(s, n)[i] = s[i + n]
      BY RestType
<1>2. ASSUME NEW j \in DOMAIN Rest(s, n) PROVE Rest(s, n)[j] \notin later
      BY <1>1, n < j + n, n \in DOMAIN s, j + n \in DOMAIN s DEF NeverAfter
<1>3. QED
      BY <1>2 DEF Range

LEMMA FollowsFacts ==
    /\ DOMAIN Follows = {"lookup", "settle", "set", "toggle", "pair", "exists",
                         "logout", "clear", "delete"}
    /\ Range(Follows) = {"settle", "exists", "write", "clear", "delete", "forget"}
    /\ Follows["lookup"] = "settle" /\ Follows["settle"] = "exists"
    /\ Follows["set"] = "exists" /\ Follows["toggle"] = "exists"
    /\ Follows["pair"] = "exists" /\ Follows["exists"] = "write"
    /\ Follows["logout"] = "clear" /\ Follows["clear"] = "delete"
    /\ Follows["delete"] = "forget"
<1>1. DOMAIN Follows = {"lookup", "settle", "set", "toggle", "pair", "exists",
                        "logout", "clear", "delete"}
      BY DEF Follows
<1>2. /\ Follows["lookup"] = "settle" /\ Follows["settle"] = "exists"
      /\ Follows["set"] = "exists" /\ Follows["toggle"] = "exists"
      /\ Follows["pair"] = "exists" /\ Follows["exists"] = "write"
      /\ Follows["logout"] = "clear" /\ Follows["clear"] = "delete"
      /\ Follows["delete"] = "forget"
      BY DEF Follows
<1>3. QED
      BY <1>1, <1>2 DEF Range

\* the step after the first ones
LEMMA NextStep ==
    ASSUME NEW s \in Seq(Steps), NEW n \in 1..Len(s), Chained(s)
    PROVE  /\ s[n] \in DOMAIN Follows => Rest(s, n) # <<>> /\ Rest(s, n)[1] = Follows[s[n]]
           /\ s[n] \in {"write", "forget"} => Rest(s, n) = <<>>
           /\ s[n] \notin DOMAIN Follows /\ Rest(s, n) # <<>> =>
                 Rest(s, n)[1] \notin Range(Follows)
           /\ Rest(s, n) = <<>> <=> n = Len(s)
<1>1. /\ DOMAIN Rest(s, n) = 1..(Len(s) - n) /\ DOMAIN s = 1..Len(s) /\ Len(s) \in Nat
      /\ \A i \in 1..(Len(s) - n) : Rest(s, n)[i] = s[i + n]
      /\ Rest(s, n) \in Seq(Steps) /\ Len(Rest(s, n)) = Len(s) - n
      BY RestType
<1>2. Rest(s, n) = <<>> <=> n = Len(s)
      BY <1>1, EmptySeq, Len(Rest(s, n)) = 0 <=> n = Len(s)
<1>3. n < Len(s) => Rest(s, n)[1] = s[n + 1] /\ n + 1 \in DOMAIN s
      BY <1>1
<1>4. n \in DOMAIN s
      BY <1>1
<1>5. /\ s[n] \in DOMAIN Follows => n < Len(s) /\ s[n + 1] = Follows[s[n]]
      /\ s[n] \in {"write", "forget"} => n = Len(s)
      BY <1>4 DEF Chained
<1>6. n < Len(s) /\ s[n + 1] \in Range(Follows) => s[n] \in DOMAIN Follows
      BY <1>3, n + 1 - 1 = n, n + 1 > 1 DEF Chained
<1>7. n = Len(s) \/ n < Len(s)
      BY Len(s) \in Nat
<1>8. QED
      BY <1>2, <1>3, <1>5, <1>6, <1>7

(***************************************************************************)
(* Goroutines.                                                             *)
(***************************************************************************)
LEMMA FirstStep ==
    ASSUME NEW r \in Thread, r.todo # <<>>
    PROVE  /\ r.todo \in Seq(Steps) /\ 1 \in 1..Len(r.todo) /\ 1 \in DOMAIN r.todo
           /\ Head(r.todo) = r.todo[1] /\ r.todo[1] \in Range(r.todo)
           /\ Tail(r.todo) = Rest(r.todo, 1)
           /\ Pop(r) = IF Rest(r.todo, 1) = <<>> THEN Answered(r, "done")
                       ELSE [r EXCEPT !.todo = Rest(r.todo, 1)]
<1>1. r.todo \in Seq(Steps)
      BY DEF Thread
<1>2. Len(r.todo) \in Nat /\ Len(r.todo) # 0 /\ DOMAIN r.todo = 1..Len(r.todo)
      BY <1>1, EmptySeq
<1>3. 1 \in 1..Len(r.todo)
      BY <1>2
<1>4. Tail(r.todo) = Rest(r.todo, 1)
      BY <1>1, TailIsSubSeq, 1 + 1 = 2 DEF Rest
<1>5. Len(Rest(r.todo, 1)) = Len(r.todo) - 1 /\ Rest(r.todo, 1) \in Seq(Steps)
      BY <1>1, <1>3, RestType
<1>6. Rest(r.todo, 1) = <<>> <=> Len(r.todo) = 1
  <2> DEFINE k == Len(r.todo)
  <2>1. k \in Nat /\ Len(Rest(r.todo, 1)) = k - 1
      BY <1>2, <1>5
  <2>2. k - 1 = 0 <=> k = 1
    <3> HIDE DEF k
    <3>1. QED
          BY <2>1
  <2>3. QED
      BY <1>5, <2>1, <2>2, EmptySeq
<1>7. Head(r.todo) = r.todo[1] /\ r.todo[1] \in Range(r.todo)
      BY <1>1, <1>2, <1>3 DEF Range
<1>8. Pop(r) = IF Rest(r.todo, 1) = <<>> THEN Answered(r, "done")
               ELSE [r EXCEPT !.todo = Rest(r.todo, 1)]
      BY <1>4, <1>6 DEF Pop
<1>9. QED
      BY <1>1, <1>2, <1>3, <1>4, <1>7, <1>8

\* a goroutine whose request has been answered
Ended(r, x) ==
    /\ x \in Thread /\ x.todo = <<>> /\ x.bot = 0 /\ x.conn = 0 /\ ~x.created
    /\ x.ready = r.ready /\ x.torn = r.torn

LEMMA AnsweredEnds ==
    ASSUME NEW r \in Thread, NEW a \in Answers
    PROVE  Ended(r, Answered(r, a)) /\ Answered(r, a).answer = a
<1>1. Idle \in Thread
      BY EmptySeq DEF Idle, Thread, Answers
<1>2. Answered(r, a) \in Thread
      BY <1>1 DEF Thread, Answered
<1>3. Answered(r, a).todo = <<>> /\ Answered(r, a).bot = 0 /\ Answered(r, a).conn = 0
      BY DEF Answered, Idle
<1>4. Answered(r, a).ready = r.ready /\ Answered(r, a).torn = r.torn /\ Answered(r, a).answer = a
      BY <1>1 DEF Answered, Thread
<1>5. Answered(r, a).created = FALSE
      BY DEF Answered, Idle
<1>6. QED
      BY <1>2, <1>3, <1>4, <1>5 DEF Ended

\* one that goes on after n steps
Moved(r, n, x) ==
    /\ x \in Thread /\ n \in 1..Len(r.todo)
    /\ x.todo = Rest(r.todo, n) /\ x.todo # <<>>
    /\ x.answer = r.answer /\ x.torn = r.torn

LEMMA EndedInOrder ==
    ASSUME NEW r, NEW x, Ended(r, x), x.answer = "panic" /\ r.ready => r.torn
    PROVE  InOrder(x)
<1>1. DOMAIN x.todo = {}
      BY DEF Ended
<1>2. Orderly(x.todo) /\ Preceded(x.todo, UsesBot, Finds) /\ Preceded(x.todo, UsesConn, Takes)
      BY <1>1 DEF Orderly, Chained, NeverAfter, Preceded
<1>3. Range(x.todo) = {}
      BY <1>1 DEF Range
<1>4. QED
      BY <1>2, <1>3 DEF Ended, InOrder

LEMMA MovedOrder ==
    ASSUME NEW r \in Thread, NEW n, NEW x, Moved(r, n, x), InOrder(r),
           x.bot = 0 => \/ r.bot = 0 /\ \A i \in 1..n : r.todo[i] \notin Finds
                        \/ HeadIn(x, Finds),
           x.conn = 0 => r.conn = 0 /\ \A i \in 1..n : r.todo[i] \notin Takes,
           x.ready \/ x.conn # 0 =>
               r.ready \/ r.conn # 0 \/ r.todo[n] \in Takes \cup {"ready"}
    PROVE  /\ Orderly(x.todo)
           /\ x.bot = 0 => Preceded(x.todo, UsesBot, Finds)
           /\ x.conn = 0 => Preceded(x.todo, UsesConn, Takes)
           /\ x.ready \/ x.conn # 0 => Range(x.todo) \cap Rebinds = {}
           /\ \A i \in DOMAIN x.todo : x.todo[i] # "pair"
           /\ x.answer = "none"
<1>1. r.todo \in Seq(Steps) /\ n \in 1..Len(r.todo) /\ x.todo = Rest(r.todo, n)
      BY DEF Moved, Thread
<1>2. r.todo # <<>>
      BY <1>1, EmptySeq
<1>3. Orderly(x.todo)
      BY <1>1, RestOrderly DEF InOrder
<1>4. x.bot = 0 => Preceded(x.todo, UsesBot, Finds)
  <2>1. CASE HeadIn(x, Finds)
    <3>1. x.todo[1] \in Finds /\ x.todo[1] \notin UsesBot
          BY <2>1 DEF HeadIn, Finds, UsesBot
    <3>2. ASSUME NEW j \in DOMAIN x.todo, x.todo[j] \in UsesBot PROVE 1 \in 1..(j - 1)
          BY <1>1, <3>1, <3>2, RestType
    <3>3. QED
          BY <3>1, <3>2 DEF Preceded
  <2>2. CASE x.bot = 0 => r.bot = 0 /\ \A i \in 1..n : r.todo[i] \notin Finds
      BY <1>1, <2>2, RestPreceded DEF InOrder
  <2>3. QED
      BY <2>1, <2>2
<1>5. x.conn = 0 => Preceded(x.todo, UsesConn, Takes)
      BY <1>1, RestPreceded DEF InOrder
<1>6. x.ready \/ x.conn # 0 => Range(x.todo) \cap Rebinds = {}
  <2>1. CASE r.todo[n] \in Takes \cup {"ready"}
      BY <1>1, <2>1, RestAvoids DEF InOrder, Orderly
  <2>2. CASE r.ready \/ r.conn # 0
      BY <1>1, <2>2, RestRange DEF InOrder
  <2>3. QED
      BY <2>1, <2>2
<1>7. x.answer = "none"
      BY <1>2 DEF Moved, InOrder
<1>8. ASSUME NEW i \in DOMAIN x.todo PROVE x.todo[i] # "pair"
  <2>1. /\ x.todo[i] = r.todo[i + n] /\ i \in 1..(Len(r.todo) - n)
        /\ DOMAIN r.todo = 1..Len(r.todo) /\ Len(r.todo) \in Nat
    <3>1. i \in 1..(Len(r.todo) - n) => Rest(r.todo, n)[i] = r.todo[i + n]
          BY <1>1, RestType
    <3>2. DOMAIN Rest(r.todo, n) = 1..(Len(r.todo) - n)
          BY <1>1, RestType
    <3>3. DOMAIN r.todo = 1..Len(r.todo) /\ Len(r.todo) \in Nat
          BY <1>1, RestType
    <3>4. QED
          BY <1>1, <3>1, <3>2, <3>3
  <2>2. i + n \in DOMAIN r.todo /\ i + n # 1
      BY <1>1, <2>1
  <2>3. QED
      BY <2>1, <2>2 DEF InOrder
<1>9. QED
      BY <1>3, <1>4, <1>5, <1>6, <1>7, <1>8

LEMMA MovedInOrder ==
    ASSUME NEW r \in Thread, NEW n, NEW x, Moved(r, n, x), InOrder(r),
           x.bot \in {0} \cup DOMAIN heap, x.bot # 0 => heap[x.bot].token = x.token,
           x.token \in Tokens,
           x.bot = 0 => \/ r.bot = 0 /\ \A i \in 1..n : r.todo[i] \notin Finds
                        \/ HeadIn(x, Finds),
           x.conn = 0 => r.conn = 0 /\ \A i \in 1..n : r.todo[i] \notin Takes,
           x.ready \/ x.conn # 0 =>
               r.ready \/ r.conn # 0 \/ r.todo[n] \in Takes \cup {"ready"},
           x.created => HeadIn(x, {"exists", "write"}) /\ x.bot # 0
    PROVE  InOrder(x)
<1>1. /\ Orderly(x.todo)
      /\ x.bot = 0 => Preceded(x.todo, UsesBot, Finds)
      /\ x.conn = 0 => Preceded(x.todo, UsesConn, Takes)
      /\ x.ready \/ x.conn # 0 => Range(x.todo) \cap Rebinds = {}
      /\ \A i \in DOMAIN x.todo : x.todo[i] # "pair"
      /\ x.answer = "none"
      BY MovedOrder
<1>2. QED
      BY <1>1 DEF InOrder

LEMMA HoldsBot ==
    ASSUME NEW r \in Thread, InOrder(r), HeadIn(r, UsesBot)
    PROVE  r.bot \in DOMAIN heap /\ r.bot # 0 /\ heap[r.bot].token = r.token
<1>1. 1 \in DOMAIN r.todo
      BY FirstStep DEF HeadIn
<1>2. ~ Preceded(r.todo, UsesBot, Finds)
      BY <1>1, 1 - 1 = 0 DEF Preceded, HeadIn
<1>3. QED
      BY <1>2 DEF InOrder

LEMMA HoldsConn ==
    ASSUME NEW r \in Thread, InOrder(r), HeadIn(r, UsesConn)
    PROVE  r.conn # 0
<1>1. 1 \in DOMAIN r.todo
      BY FirstStep DEF HeadIn
<1>2. ~ Preceded(r.todo, UsesConn, Takes)
      BY <1>1, 1 - 1 = 0 DEF Preceded, HeadIn
<1>3. QED
      BY <1>2 DEF InOrder

LEMMA MakingIsChanging ==
    ASSUME NEW r \in Thread, InOrder(r), IsMaking(r)
    PROVE  IsChanging(r)
<1>1. CASE Range(r.todo) \cap MakesOrDeletes # {}
      BY <1>1 DEF IsMaking, IsChanging, Writes
<1>2. CASE r.created
  <2>1. HeadIn(r, {"exists", "write"}) /\ r.bot # 0
      BY <1>2 DEF InOrder
  <2>2. r.todo[1] \in Range(r.todo) /\ r.todo[1] \in Writes
      BY <2>1, FirstStep DEF HeadIn, Writes
  <2>3. QED
      BY <2>1, <2>2 DEF IsChanging, InUse
<1>3. QED
      BY <1>1, <1>2 DEF IsMaking

\* who has one of these steps before it has a bot, and makes or changes it
LEMMA HeadMakes ==
    ASSUME NEW r \in Thread, InOrder(r), HeadIn(r, {"settle", "pair", "logout", "clear", "delete", "forget"})
    PROVE  IsMaking(r)
<1>1. r.todo[1] \in Range(r.todo) \cap MakesOrDeletes
      BY FirstStep DEF HeadIn, MakesOrDeletes
<1>2. CASE HeadIn(r, {"settle", "pair"})
      BY <1>1, <1>2 DEF IsMaking, InUse
<1>3. CASE HeadIn(r, UsesBot)
      BY <1>1, <1>3, HoldsBot DEF IsMaking, InUse
<1>4. QED
      BY <1>2, <1>3 DEF HeadIn, UsesBot

LEMMA HeadChanges ==
    ASSUME NEW r \in Thread, InOrder(r), HeadIn(r, Writes)
    PROVE  IsChanging(r)
<1>1. r.todo[1] \in Range(r.todo) \cap Writes
      BY FirstStep DEF HeadIn
<1>2. CASE HeadIn(r, {"settle", "pair"})
      BY <1>1, <1>2 DEF IsChanging, InUse
<1>3. CASE HeadIn(r, UsesBot)
      BY <1>1, <1>3, HoldsBot DEF IsChanging, InUse
<1>4. QED
      BY <1>2, <1>3 DEF HeadIn, UsesBot, Writes, MakesOrDeletes

(***************************************************************************)
(* The other goroutines, when one takes a step.                            *)
(***************************************************************************)
Alike(r, x) ==
    /\ x.todo = r.todo /\ x.token = r.token /\ x.bot = r.bot /\ x.conn = r.conn
    /\ x.found = r.found /\ x.created = r.created /\ x.ready = r.ready
    /\ x.answer = r.answer /\ (x.torn = r.torn \/ x.torn = TRUE)

OthersAlike(p) == \A q \in Procs \ {p} : Alike(th[q], th'[q])

\* x is no more a danger to others than r was
Lighter(r, x) ==
    /\ IsChanging(x) => IsChanging(r) /\ x.token = r.token
    /\ IsMaking(x) => IsMaking(r) /\ x.token = r.token

LEMMA ClashStays ==
    ASSUME ClashInv, NEW p \in Procs, OthersAlike(p), Lighter(th[p], th'[p]),
           clash \subseteq clash'
    PROVE  ClashInv'
<1> SUFFICES ASSUME NEW q \in Procs, NEW r \in Procs, q # r,
                    th'[q].token = th'[r].token, IsMaking(th'[q]), IsChanging(th'[r])
             PROVE  th'[q].token \in clash'
    BY DEF ClashInv, IsMaking, IsChanging, InUse, HeadIn
<1>1. ASSUME NEW s \in Procs
      PROVE  /\ IsMaking(th'[s]) => IsMaking(th[s]) /\ th'[s].token = th[s].token
             /\ IsChanging(th'[s]) => IsChanging(th[s]) /\ th'[s].token = th[s].token
  <2>1. CASE s = p
      BY <2>1 DEF Lighter
  <2>2. CASE s # p
    <3>1. Alike(th[s], th'[s])
          BY <2>2 DEF OthersAlike
    <3>2. QED
          BY <3>1 DEF Alike, IsMaking, IsChanging, InUse, HeadIn
  <2>3. QED
      BY <2>1, <2>2
<1>2. QED
      BY <1>1 DEF ClashInv

LEMMA OthersKeepOrder ==
    ASSUME NEW q \in Procs, InOrder(th[q]), Alike(th[q], th'[q]),
           DOMAIN heap \subseteq DOMAIN heap',
           \A o \in DOMAIN heap : heap'[o].token = heap[o].token
    PROVE  InOrder(th[q])'
BY DEF InOrder, Alike, HeadIn

LEMMA OthersRely ==
    ASSUME NEW p \in Procs, NEW q \in Procs, p # q, ClashInv,
           th[p] \in Thread, th[q] \in Thread, InOrder(th[p]), InOrder(th[q]),
           Alike(th[q], th'[q]), Relies(th[q]), clash \subseteq clash',
           \A t \in Tokens : bots'[t] # bots[t] => th[p].token = t /\ IsMaking(th[p]),
           \A t \in Tokens : rows'[t] # rows[t] =>
               th[p].token = t /\ (IsMaking(th[p]) \/ (IsChanging(th[p]) /\ rows'[t] # None)),
           \A o \in DOMAIN heap : heap'[o].conn # heap[o].conn =>
               heap'[o].conn = 0 \/ (heap[o].token = th[p].token /\ IsChanging(th[p]))
    PROVE  Relies(th[q])'
<1> DEFINE r == th[q]
<1>1. /\ th'[q].todo = r.todo /\ th'[q].token = r.token /\ th'[q].bot = r.bot
      /\ th'[q].found = r.found /\ th'[q].created = r.created
      BY DEF Alike
<1>2. SUFFICES ASSUME r.todo # <<>>, r.token \notin clash'
      PROVE /\ Range(r.todo) \cap Writes # {} /\ (r.bot # 0 \/ HeadIn(r, {"settle"})) =>
                  bots'[r.token] = r.bot
            /\ r.created \/ HeadIn(r, {"clear", "delete", "forget"}) => heap'[r.bot].conn = 0
            /\ r.created \/ HeadIn(r, {"forget"}) => rows'[r.token] = None
            /\ HeadIn(r, {"write"}) /\ r.found => rows'[r.token] # None
      BY <1>1 DEF Relies, HeadIn
<1>3. r.token \in Tokens /\ r.token \notin clash
      BY <1>2 DEF InOrder
<1>4. IsMaking(r) /\ IsChanging(th[p]) => r.token # th[p].token
      BY <1>3 DEF ClashInv
<1>5. IsChanging(r) /\ IsMaking(th[p]) => r.token # th[p].token
      BY <1>3 DEF ClashInv
<1>6. IsMaking(th[p]) => IsChanging(th[p])
      BY MakingIsChanging
<1>7. ASSUME Range(r.todo) \cap Writes # {}, r.bot # 0 \/ HeadIn(r, {"settle"})
      PROVE  bots'[r.token] = r.bot
  <2>1. IsChanging(r)
      BY <1>7 DEF IsChanging, InUse, HeadIn
  <2>2. bots[r.token] = r.bot
      BY <1>2, <1>3, <1>7 DEF Relies
  <2>3. QED
      BY <1>3, <1>5, <2>1, <2>2
<1>8. ASSUME r.created \/ HeadIn(r, {"clear", "delete", "forget"})
      PROVE  IsMaking(r) /\ r.bot # 0 /\ r.bot \in DOMAIN heap /\ heap[r.bot].token = r.token
  <2>1. CASE r.created
      BY <2>1 DEF InOrder, IsMaking, InUse
  <2>2. CASE HeadIn(r, {"clear", "delete", "forget"})
      BY <2>2, HeadMakes, HoldsBot DEF HeadIn, UsesBot
  <2>3. QED
      BY <1>8, <2>1, <2>2
<1>9. ASSUME r.created \/ HeadIn(r, {"clear", "delete", "forget"})
      PROVE  heap'[r.bot].conn = 0
  <2>1. heap[r.bot].conn = 0
      BY <1>2, <1>3, <1>9 DEF Relies
  <2>2. QED
      BY <1>4, <1>8, <1>9, <2>1
<1>10. ASSUME r.created \/ HeadIn(r, {"forget"})
       PROVE  rows'[r.token] = None
  <2>1. rows[r.token] = None
      BY <1>2, <1>3, <1>10 DEF Relies
  <2>2. IsMaking(r)
      BY <1>8, <1>10 DEF HeadIn
  <2>3. QED
      BY <1>3, <1>4, <1>6, <2>1, <2>2
<1>11. ASSUME HeadIn(r, {"write"}), r.found
       PROVE  rows'[r.token] # None
  <2>1. rows[r.token] # None
      BY <1>2, <1>3, <1>11 DEF Relies
  <2>2. IsChanging(r)
      BY <1>11, HeadChanges DEF HeadIn, Writes
  <2>3. QED
      BY <1>3, <1>5, <2>1, <2>2
<1>12. QED
      BY <1>7, <1>9, <1>10, <1>11

(***************************************************************************)
(* Steps that touch nothing but their own goroutine.                       *)
(***************************************************************************)
LEMMA ThreadStep ==
    ASSUME Inv, NEW p \in Procs, NEW x \in Thread, th' = [th EXCEPT ![p] = x],
           UNCHANGED <<rows, bots, heap, conns, pairing, made, unsaved, replaced>>,
           up' \subseteq conns, starting' \subseteq DOMAIN heap,
           clash \subseteq clash', clash' \subseteq Tokens, ClashInv',
           ~ HeadIn(th[p], {"pair", "exists", "write", "forget"}),
           InOrder(x), Keeps(x), Relies(th[p])', ~ Waiting(x),
           x.conn \in {0, th[p].conn} \cup {heap[o].conn : o \in DOMAIN heap}
    PROVE  Inv'
<1>1. th'[p] = x /\ OthersAlike(p) /\ \A q \in Procs \ {p} : th'[q] = th[q]
      BY DEF OthersAlike, Alike, Inv, TypeInv
<1>2. TypeInv'
  <2>1. th' \in [Procs -> Thread]
      BY DEF Inv, TypeInv
  <2>2. Thread' = Thread /\ Object' = Object /\ Row' = Row
      BY DEF Thread, Object, Row
  <2>3. QED
      BY <2>1, <2>2 DEF Inv, TypeInv
<1>3. Apart'
  <2>1. th[p].conn \in (0..made) \ DOMAIN pairing
      BY DEF Inv, Apart
  <2>2. \A o \in DOMAIN heap : heap[o].conn \in (0..made) \ DOMAIN pairing
    <3>1. conns \subseteq 1..made /\ made \in Nat /\ DOMAIN pairing \subseteq conns
          BY DEF Inv, TypeInv, Apart
    <3>2. 0 \in 0..made /\ 0 \notin DOMAIN pairing /\ 1..made \subseteq 0..made
          BY <3>1
    <3>3. \A o \in DOMAIN heap : heap[o].conn # 0 => heap[o].conn \in conns \ DOMAIN pairing
          BY DEF Inv, Apart
    <3>4. QED
          BY <3>1, <3>2, <3>3
  <2>3. 0 \in (0..made) \ DOMAIN pairing
    <3>1. conns \subseteq 1..made /\ made \in Nat /\ DOMAIN pairing \subseteq conns
          BY DEF Inv, TypeInv, Apart
    <3>2. QED
          BY <3>1
  <2>4. x.conn \in (0..made) \ DOMAIN pairing
      BY <2>1, <2>2, <2>3
  <2>5. ASSUME NEW q \in Procs, Waiting(th'[q])
        PROVE  /\ th'[q].conn \in conns \ replaced
               /\ \A o \in DOMAIN heap : heap[o].conn # th'[q].conn
               /\ \A u \in Procs \ {q} : th'[u].conn # th'[q].conn
    <3>1. q # p /\ th'[q] = th[q]
          BY <1>1, <2>5
    <3>2. /\ th[q].conn \in conns \ replaced
          /\ \A o \in DOMAIN heap : heap[o].conn # th[q].conn
          /\ \A u \in Procs \ {q} : th[u].conn # th[q].conn
          BY <2>5, <3>1 DEF Inv, Apart
    <3>3. th[q].conn # 0
          BY <3>2 DEF Inv, TypeInv
    <3>4. x.conn # th[q].conn
          BY <3>1, <3>2, <3>3
    <3>5. QED
          BY <1>1, <3>1, <3>2, <3>4
  <2>6. QED
      BY <1>1, <2>4, <2>5 DEF Inv, Apart, Waiting, HeadIn
<1>4. Owned'
  <2>1. \A q \in Procs : Waiting(th[q]) => q # p
      BY DEF Waiting, HeadIn
  <2>2. \A q \in Procs : Waiting(th[q]) => Waiting(th[q])' /\ th'[q].conn = th[q].conn
      BY <1>1, <2>1 DEF Waiting, HeadIn
  <2>3. QED
      BY <2>2 DEF Inv, Owned
<1>5. RowsInv'
  <2>1. \A t \in Tokens : Pending(t) => Pending(t)'
      BY <1>1 DEF Pending, HeadIn
  <2>2. \A t \in Tokens : Agree(t) => Agree(t)'
      BY DEF Agree, Registered
  <2>3. QED
      BY <2>1, <2>2 DEF Inv, RowsInv, Registered
<1>6. ASSUME NEW q \in Procs PROVE InOrder(th[q])' /\ Keeps(th[q])' /\ Relies(th[q])'
  <2>1. CASE q = p
    <3>1. InOrder(x) => InOrder(th[q])'
          BY <1>1, <2>1 DEF InOrder, HeadIn
    <3>2. Keeps(x) => Keeps(th[q])'
          BY <1>1, <2>1 DEF Keeps, Waiting, HeadIn
    <3>3. QED
          BY <2>1, <3>1, <3>2
  <2>2. CASE q # p
    <3>1. th'[q] = th[q]
          BY <1>1, <2>2
    <3>2. InOrder(th[q]) => InOrder(th[q])'
          BY <3>1 DEF InOrder, HeadIn
    <3>3. Keeps(th[q]) => Keeps(th[q])'
          BY <3>1 DEF Keeps, Waiting, HeadIn
    <3>4. Relies(th[q]) => Relies(th[q])'
          BY <3>1 DEF Relies, HeadIn
    <3>5. QED
          BY <3>2, <3>3, <3>4 DEF Inv
  <2>3. QED
      BY <2>1, <2>2
<1>7. QED
      BY <1>2, <1>3, <1>4, <1>5, <1>6 DEF Inv

(***************************************************************************)
(* Using a bot: what Join asks is what ClashInv says.                      *)
(***************************************************************************)
LEMMA UsesIsInUse ==
    ASSUME NEW q \in Procs, th[q] \in Thread, NEW t
    PROVE  /\ Changes(q, t) <=> th[q].token = t /\ IsChanging(th[q])
           /\ Makes(q, t) <=> th[q].token = t /\ IsMaking(th[q])
<1>1. ASSUME NEW step PROVE At(q, step) <=> HeadIn(th[q], {step})
      BY FirstStep DEF At, Busy, HeadIn
<1>2. Uses(q, t) <=> th[q].token = t /\ InUse(th[q])
      BY <1>1 DEF Uses, InUse, HeadIn
<1>3. Ahead(q) = Range(th[q].todo)
      BY DEF Ahead
<1>4. QED
      BY <1>2, <1>3 DEF Changes, Makes, IsChanging, IsMaking

LEMMA JoinsIn ==
    ASSUME Inv, NEW p \in Procs, NEW x, OthersAlike(p), th'[p] = x,
           NEW t \in Tokens, NEW steps, x.token = t,
           IsMaking(x) => steps \cap MakesOrDeletes # {},
           IsChanging(x) => steps \cap Writes # {},
           Join(p, steps, t) \/ clash' = clash \cup {t}
    PROVE  ClashInv' /\ clash \subseteq clash' /\ clash' \subseteq Tokens
<1>1. clash \subseteq clash' /\ clash' \subseteq clash \cup {t} /\ clash \subseteq Tokens
      BY DEF Join, Inv, TypeInv
<1>2. ASSUME NEW q \in Procs, q # p
      PROVE  /\ IsMaking(th'[q]) <=> IsMaking(th[q])
             /\ IsChanging(th'[q]) <=> IsChanging(th[q])
             /\ th'[q].token = th[q].token
  <2>1. Alike(th[q], th'[q])
      BY <1>2 DEF OthersAlike
  <2>2. QED
      BY <2>1 DEF Alike, IsMaking, IsChanging, InUse, HeadIn
<1>3. ASSUME NEW q \in Procs, q # p, th[q].token = t, t \notin clash'
      PROVE  /\ ~ (IsMaking(x) /\ IsChanging(th[q]))
             /\ ~ (IsChanging(x) /\ IsMaking(th[q]))
  <2>1. th[q] \in Thread
      BY DEF Inv, TypeInv
  <2>2. /\ Changes(q, t) <=> IsChanging(th[q])
        /\ Makes(q, t) <=> IsMaking(th[q])
      BY <1>3, <2>1, UsesIsInUse
  <2>3. Join(p, steps, t) /\ q \in Procs \ {p}
      BY <1>3
  <2>4. /\ ~ (steps \cap MakesOrDeletes # {} /\ Changes(q, t))
        /\ ~ (steps \cap Writes # {} /\ Makes(q, t))
      BY <1>3, <2>3 DEF Join
  <2>5. QED
      BY <2>2, <2>4
<1>4. ASSUME NEW q \in Procs, NEW r \in Procs, q # r,
             th'[q].token = th'[r].token, IsMaking(th'[q]), IsChanging(th'[r])
      PROVE  th'[q].token \in clash'
  <2>1. CASE q = p
      BY <1>2, <1>3, <1>4, <2>1
  <2>2. CASE r = p
      BY <1>2, <1>3, <1>4, <2>2
  <2>3. CASE q # p /\ r # p
    <3>1. th[q].token \in clash
          BY <1>2, <1>4, <2>3 DEF Inv, ClashInv
    <3>2. QED
          BY <1>1, <1>2, <2>3, <3>1
  <2>4. QED
      BY <2>1, <2>2, <2>3
<1>5. ClashInv'
      BY <1>4 DEF ClashInv, IsMaking, IsChanging, InUse, HeadIn
<1>6. QED
      BY <1>1, <1>5

LEMMA JoinStays ==
    ASSUME Inv, NEW p \in Procs, NEW x, OthersAlike(p), th'[p] = x,
           NEW t \in Tokens, NEW steps, x.token = t, ~ x.created,
           Range(x.todo) \subseteq steps,
           Join(p, steps, t) \/ clash' = clash \cup {t}
    PROVE  ClashInv' /\ clash \subseteq clash' /\ clash' \subseteq Tokens
<1>1. /\ IsMaking(x) => steps \cap MakesOrDeletes # {}
      /\ IsChanging(x) => steps \cap Writes # {}
      BY DEF IsMaking, IsChanging
<1>2. QED
      BY <1>1, JoinsIn

LEMMA PopMoves ==
    ASSUME NEW y \in Thread, y.todo # <<>>
    PROVE  /\ Pop(y) \in Thread
           /\ \/ Ended(y, Pop(y)) /\ Pop(y).answer = "done"
              \/ Moved(y, 1, Pop(y)) /\ Pop(y) = [y EXCEPT !.todo = Rest(y.todo, 1)]
           /\ Rest(y.todo, 1) # <<>> =>
                 Moved(y, 1, Pop(y)) /\ Pop(y) = [y EXCEPT !.todo = Rest(y.todo, 1)]
           /\ Rest(y.todo, 1) = <<>> => Ended(y, Pop(y))
<1>1. /\ 1 \in 1..Len(y.todo) /\ y.todo \in Seq(Steps)
      /\ Pop(y) = IF Rest(y.todo, 1) = <<>> THEN Answered(y, "done")
                  ELSE [y EXCEPT !.todo = Rest(y.todo, 1)]
      BY FirstStep
<1>2. CASE Rest(y.todo, 1) = <<>>
  <2>1. Pop(y) = Answered(y, "done") /\ "done" \in Answers
      BY <1>1, <1>2 DEF Answers
  <2>2. Ended(y, Pop(y)) /\ Pop(y).answer = "done"
      BY <2>1, AnsweredEnds
  <2>3. QED
      BY <1>2, <2>2 DEF Ended
<1>3. CASE Rest(y.todo, 1) # <<>>
  <2>1. Pop(y) = [y EXCEPT !.todo = Rest(y.todo, 1)]
      BY <1>1, <1>3
  <2>2. Rest(y.todo, 1) \in Seq(Steps)
      BY <1>1, RestType
  <2>3. Pop(y) \in Thread /\ Pop(y).todo = Rest(y.todo, 1)
      BY <2>1, <2>2 DEF Thread
  <2>4. Pop(y).answer = y.answer /\ Pop(y).torn = y.torn
      BY <2>1 DEF Thread
  <2>5. Moved(y, 1, Pop(y))
      BY <1>1, <1>3, <2>3, <2>4 DEF Moved
  <2>6. QED
      BY <1>3, <2>1, <2>3, <2>5
<1>4. QED
      BY <1>2, <1>3

(***************************************************************************)
(* A request that is answered, and one that goes on with what it has.      *)
(***************************************************************************)
LEMMA EndsAnyway ==
    ASSUME Inv, NEW p \in Procs, NEW r, NEW x, th' = [th EXCEPT ![p] = x],
           UNCHANGED <<rows, bots, heap, conns, pairing, made, unsaved, replaced>>,
           up' \subseteq conns, starting' \subseteq DOMAIN heap,
           clash \subseteq clash', clash' \subseteq Tokens,
           Ended(r, x), x.answer = "panic" /\ r.ready => r.torn,
           ~ HeadIn(th[p], {"pair", "exists", "write", "forget"})
    PROVE  Inv'
<1>1. x \in Thread /\ x.todo = <<>> /\ x.bot = 0 /\ x.conn = 0 /\ ~ x.created
      BY DEF Ended
<1>2. th'[p] = x /\ OthersAlike(p)
      BY DEF OthersAlike, Alike, Inv, TypeInv
<1>3. ~ InUse(x)
      BY <1>1 DEF InUse, HeadIn
<1>4. Lighter(th[p], x)
      BY <1>3 DEF Lighter, IsMaking, IsChanging
<1>5. ClashInv'
      BY <1>2, <1>4, ClashStays DEF Inv
<1>6. InOrder(x)
      BY EndedInOrder
<1>7. Keeps(x) /\ ~ Waiting(x)
      BY <1>1 DEF Keeps, Waiting, HeadIn
<1>8. Relies(th[p])'
      BY <1>1, <1>2 DEF Relies
<1>9. QED
      BY <1>1, <1>5, <1>6, <1>7, <1>8, ThreadStep

LEMMA Ends ==
    ASSUME Inv, NEW p \in Procs, NEW r, NEW x, th' = [th EXCEPT ![p] = x],
           UNCHANGED requests, Ended(r, x), x.answer = "panic" /\ r.ready => r.torn,
           ~ HeadIn(th[p], {"pair", "exists", "write", "forget"})
    PROVE  Inv'
<1>1. /\ UNCHANGED <<rows, bots, heap, conns, pairing, made, unsaved, replaced>>
      /\ up' \subseteq conns /\ starting' \subseteq DOMAIN heap
      /\ clash' = clash /\ clash' \subseteq Tokens
      BY DEF requests, Inv, TypeInv
<1>2. QED
      BY <1>1, EndsAnyway

\* no pairing comes after another step
LEMMA GoesOnApart ==
    ASSUME NEW r \in Thread, NEW n, NEW x, Moved(r, n, x), InOrder(r)
    PROVE  x.todo[1] # "pair" /\ Range(x.todo) \subseteq Range(r.todo)
<1>1. /\ n \in 1..Len(r.todo) /\ x.todo = Rest(r.todo, n) /\ x.todo # <<>>
      /\ r.todo \in Seq(Steps)
      BY DEF Moved, Thread
<1>2. Rest(r.todo, n) # <<>> /\ n \in Nat
      BY <1>1
<1>3. /\ Len(r.todo) \in Nat /\ Len(Rest(r.todo, n)) = Len(r.todo) - n
      /\ Rest(r.todo, n) \in Seq(Steps) /\ DOMAIN r.todo = 1..Len(r.todo)
      BY <1>1, RestType
<1>4. Len(r.todo) - n # 0 /\ n <= Len(r.todo)
      BY <1>1, <1>2, <1>3, EmptySeq
<1>5. 1 \in 1..(Len(r.todo) - n) /\ 1 + n \in DOMAIN r.todo /\ 1 + n # 1
  <2> DEFINE k == Len(r.todo)
  <2>1. k \in Nat /\ n \in Nat /\ n >= 1 /\ k - n # 0 /\ n <= k /\ DOMAIN r.todo = 1..k
      BY <1>1, <1>2, <1>3, <1>4
  <2> HIDE DEF k
  <2>2. 1 \in 1..(k - n) /\ 1 + n \in 1..k /\ 1 + n # 1
      BY <2>1
  <2>3. QED
      BY <2>1, <2>2 DEF k
<1>6. x.todo[1] = r.todo[1 + n]
      BY <1>1, <1>5, RestType
<1>7. QED
      BY <1>1, <1>5, <1>6, RestRange DEF InOrder

LEMMA GoesOn ==
    ASSUME Inv, NEW p \in Procs, NEW n, NEW x, th' = [th EXCEPT ![p] = x],
           UNCHANGED requests, Moved(th[p], n, x),
           x.token = th[p].token, x.bot = th[p].bot, x.found = th[p].found,
           x.created = th[p].created,
           \A i \in 1..n : th[p].todo[i] \notin {"bot", "first", "lookup", "settle", "set", "toggle",
                                   "pair", "exists", "write", "logout", "delete", "forget"},
           \A i \in 1..n : th[p].todo[i] \in Takes \cup {"ready", "clear"} => i = n /\ n = 1,
           \/ x.conn = th[p].conn /\ \A i \in 1..n : th[p].todo[i] \notin Takes
           \/ /\ th[p].todo[n] \in Takes
              /\ x.conn # 0 /\ x.conn = heap[th[p].bot].conn,
           \/ x.ready = th[p].ready
           \/ th[p].todo[n] = "ready" /\ heap[th[p].bot].conn # 0
    PROVE  Inv'
<1> DEFINE r == th[p]
<1>1. /\ r \in Thread /\ x \in Thread /\ InOrder(r) /\ Keeps(r) /\ Relies(r)
      /\ n \in 1..Len(r.todo) /\ x.todo = Rest(r.todo, n) /\ x.todo # <<>>
      /\ r.todo \in Seq(Steps) /\ x.answer = r.answer /\ x.torn = r.torn
      BY DEF Inv, TypeInv, Moved, Thread
<1>2. r.todo # <<>>
      BY <1>1, EmptySeq
<1>3. th'[p] = x /\ OthersAlike(p)
      BY DEF OthersAlike, Alike, Inv, TypeInv
<1>4. /\ UNCHANGED <<rows, bots, heap, conns, pairing, made, unsaved, replaced>>
      /\ up' \subseteq conns /\ starting' \subseteq DOMAIN heap
      /\ clash' = clash /\ clash' \subseteq Tokens
      BY DEF requests, Inv, TypeInv
<1>5. n \in 1..n /\ 1 \in 1..n /\ r.todo[1] \notin {"exists", "write", "pair", "forget"}
      BY <1>1
<1>6. ~ HeadIn(r, {"pair", "exists", "write", "forget"}) /\ ~ r.created
      BY <1>5 DEF HeadIn, InOrder, Inv
<1>7. /\ x.todo[1] \notin Range(Follows) \ {"delete"}
      /\ x.todo[1] = "delete" => r.todo[n] = "clear" /\ n = 1
  <2>1. Chained(r.todo) /\ r.todo[n] \notin {"bot", "first", "lookup", "settle", "set", "toggle",
                                   "pair", "exists", "write", "logout", "delete", "forget"}
      BY <1>1, <1>5 DEF InOrder, Orderly
  <2>2. CASE r.todo[n] = "clear"
    <3>1. x.todo[1] = "delete" /\ n = 1
          BY <1>1, <1>5, <2>1, <2>2, NextStep, FollowsFacts
    <3>2. QED
          BY <2>2, <3>1
  <2>3. CASE r.todo[n] # "clear"
    <3>1. r.todo[n] \notin DOMAIN Follows
          BY <2>1, <2>3, FollowsFacts
    <3>2. x.todo[1] \notin Range(Follows)
          BY <1>1, <2>1, <3>1, NextStep
    <3>3. QED
          BY <3>2, FollowsFacts
  <2>4. QED
      BY <2>2, <2>3
<1>8. x.todo[1] # "pair" /\ Range(x.todo) \subseteq Range(r.todo)
      BY <1>1, GoesOnApart
<1>9. Lighter(r, x) /\ ~ Waiting(x)
  <2>1. ~ HeadIn(x, {"settle", "pair"})
      BY <1>7, <1>8, FollowsFacts DEF HeadIn
  <2>2. InUse(x) => InUse(r)
      BY <2>1 DEF InUse
  <2>3. QED
      BY <1>8, <2>1, <2>2 DEF Lighter, IsMaking, IsChanging, Waiting, HeadIn
<1>10. ClashInv'
      BY <1>3, <1>4, <1>9, ClashStays DEF Inv
<1>11. r.todo[n] \in Takes \cup {"ready"} => r.bot \in DOMAIN heap /\ r.bot # 0
  <2>1. SUFFICES ASSUME r.todo[n] \in Takes \cup {"ready"}
                 PROVE  r.bot \in DOMAIN heap /\ r.bot # 0
      OBVIOUS
  <2>2. n = 1
      BY <1>5, <2>1
  <2>3. HeadIn(r, UsesBot)
      BY <1>2, <2>1, <2>2 DEF HeadIn, Takes, UsesBot
  <2>4. QED
      BY <1>1, <2>3, HoldsBot
<1>12. InOrder(x)
  <2>1. x.conn = 0 => r.conn = 0 /\ \A i \in 1..n : r.todo[i] \notin Takes
      OBVIOUS
  <2>2. x.ready \/ x.conn # 0 => r.ready \/ r.conn # 0 \/ r.todo[n] \in Takes \cup {"ready"}
      BY <1>1 DEF Thread
  <2>3. \A i \in 1..n : r.todo[i] \notin Finds
      BY DEF Finds
  <2>4. r.bot \in {0} \cup DOMAIN heap /\ (r.bot # 0 => heap[r.bot].token = r.token) /\ r.token \in Tokens
      BY <1>1, <1>2 DEF InOrder
  <2>5. QED
      BY <1>1, <1>6, <2>1, <2>2, <2>3, <2>4, MovedInOrder
<1>13. Keeps(x)
  <2>1. SUFFICES ASSUME ~ x.torn
                 PROVE  /\ x.conn # 0 => /\ x.conn \in conns
                                         /\ \/ x.conn \in replaced \/ Waiting(x)
                                            \/ x.bot # 0 /\ heap[x.bot].conn = x.conn
                        /\ x.ready => x.bot # 0 /\ heap[x.bot].conn # 0
      BY DEF Keeps
  <2>2. ~ Waiting(r)
      BY <1>6 DEF Waiting, HeadIn
  <2>3. x.conn # 0 => /\ x.conn \in conns
                      /\ x.conn \in replaced \/ (x.bot # 0 /\ heap[x.bot].conn = x.conn)
    <3>1. CASE x.conn = r.conn
          BY <1>1, <1>2, <2>1, <2>2, <3>1 DEF Keeps
    <3>2. CASE r.todo[n] \in Takes /\ x.conn = heap[r.bot].conn
          BY <1>11, <3>2 DEF Inv, Apart
    <3>3. QED
          BY <3>1, <3>2
  <2>4. x.ready => x.bot # 0 /\ heap[x.bot].conn # 0
      BY <1>1, <1>2, <1>11, <2>1 DEF Keeps
  <2>5. QED
      BY <2>3, <2>4
<1>14. Relies(th[p])'
  <2>1. SUFFICES ASSUME r.token \notin clash
        PROVE /\ Range(x.todo) \cap Writes # {} /\ (x.bot # 0 \/ HeadIn(x, {"settle"})) =>
                    bots[r.token] = x.bot
              /\ x.created \/ HeadIn(x, {"clear", "delete", "forget"}) => heap[x.bot].conn = 0
              /\ x.created \/ HeadIn(x, {"forget"}) => rows[x.token] = None
              /\ HeadIn(x, {"write"}) /\ x.found => rows[x.token] # None
      BY <1>3, <1>4 DEF Relies, HeadIn
  <2>2. ~ HeadIn(x, {"settle", "clear", "forget", "write"})
      BY <1>7, FollowsFacts DEF HeadIn
  <2>3. HeadIn(x, {"delete"}) => HeadIn(r, {"clear"})
      BY <1>2, <1>7 DEF HeadIn
  <2>4. QED
      BY <1>1, <1>2, <1>6, <1>8, <2>1, <2>2, <2>3 DEF Relies, HeadIn
<1>15. x.conn \in {0, r.conn} \cup {heap[o].conn : o \in DOMAIN heap}
      BY <1>11
<1>16. QED
      BY <1>1, <1>4, <1>6, <1>9, <1>10, <1>12, <1>13, <1>14, <1>15, ThreadStep

LEMMA IsAnswered ==
    ASSUME Inv, NEW p \in Procs, NEW a \in Answers, Answer(p, a), UNCHANGED requests,
           a = "panic" /\ th[p].ready => th[p].torn,
           ~ HeadIn(th[p], {"pair", "exists", "write", "forget"})
    PROVE  Inv'
<1>1. th[p] \in Thread
      BY DEF Inv, TypeInv
<1>2. Ended(th[p], Answered(th[p], a)) /\ Answered(th[p], a).answer = a
      BY <1>1, AnsweredEnds
<1>3. th' = [th EXCEPT ![p] = Answered(th[p], a)]
      BY DEF Answer, Set
<1>4. QED
      BY <1>2, <1>3, Ends

LEMMA PopsOn ==
    ASSUME Inv, NEW p \in Procs, NEW y \in Thread, Set(p, Pop(y)), UNCHANGED requests, Busy(p),
           y.todo = th[p].todo, y.token = th[p].token, y.bot = th[p].bot,
           y.found = th[p].found, y.created = th[p].created, y.answer = th[p].answer,
           y.torn = th[p].torn,
           ~ HeadIn(th[p], {"bot", "first", "lookup", "settle", "set", "toggle", "pair",
                            "exists", "write", "logout", "delete", "forget"}),
           \/ y.conn = th[p].conn /\ ~ HeadIn(th[p], Takes)
           \/ HeadIn(th[p], Takes) /\ y.conn # 0 /\ y.conn = heap[th[p].bot].conn,
           \/ y.ready = th[p].ready
           \/ HeadIn(th[p], {"ready"}) /\ heap[th[p].bot].conn # 0
    PROVE  Inv'
<1> DEFINE x == Pop(y)
<1>1. y.todo # <<>> /\ th[p] \in Thread
      BY DEF Busy, Inv, TypeInv
<1>2. /\ x \in Thread
      /\ \/ Ended(y, x) /\ x.answer = "done"
         \/ Moved(y, 1, x) /\ x = [y EXCEPT !.todo = Rest(y.todo, 1)]
      BY <1>1, PopMoves
<1>3. th' = [th EXCEPT ![p] = x]
      BY DEF Set
<1> HIDE DEF x
<1>4. CASE Ended(y, x) /\ x.answer = "done"
  <2>1. ~ (x.answer = "panic")
      BY <1>4
  <2>2. ~ HeadIn(th[p], {"pair", "exists", "write", "forget"})
      BY DEF HeadIn
  <2>3. QED
      BY <1>3, <1>4, <2>1, <2>2, Ends
<1>5. CASE Moved(y, 1, x) /\ x = [y EXCEPT !.todo = Rest(y.todo, 1)]
  <2>1. Moved(th[p], 1, x)
      BY <1>5 DEF Moved
  <2>2. /\ x.token = th[p].token /\ x.bot = th[p].bot /\ x.found = th[p].found
        /\ x.created = th[p].created /\ x.conn = y.conn /\ x.ready = y.ready
      BY <1>5 DEF Thread
  <2>3. \A i \in 1..1 : th[p].todo[i] \notin {"bot", "first", "lookup", "settle", "set", "toggle",
                                   "pair", "exists", "write", "logout", "delete", "forget"}
      BY <1>1 DEF HeadIn
  <2>4. \A i \in 1..1 : th[p].todo[i] \in Takes \cup {"ready", "clear"} => i = 1 /\ 1 = 1
      OBVIOUS
  <2>5. \/ x.conn = th[p].conn /\ \A i \in 1..1 : th[p].todo[i] \notin Takes
        \/ th[p].todo[1] \in Takes /\ x.conn # 0 /\ x.conn = heap[th[p].bot].conn
      BY <1>1, <2>2 DEF HeadIn
  <2>6. \/ x.ready = th[p].ready
        \/ th[p].todo[1] = "ready" /\ heap[th[p].bot].conn # 0
      BY <2>2 DEF HeadIn
  <2>7. QED
      BY <1>3, <2>1, <2>2, <2>3, <2>4, <2>5, <2>6, GoesOn
<1>6. QED
      BY <1>2, <1>4, <1>5

LEMMA HeadIs ==
    ASSUME Inv, NEW p \in Procs, Busy(p)
    PROVE  /\ th[p] \in Thread /\ InOrder(th[p]) /\ Keeps(th[p]) /\ Relies(th[p])
           /\ Head(th[p].todo) = th[p].todo[1] /\ th[p].token \in Tokens
           /\ \A S : HeadIn(th[p], S) <=> Head(th[p].todo) \in S
           /\ \A step : At(p, step) <=> Head(th[p].todo) = step
<1>1. th[p] \in Thread /\ InOrder(th[p]) /\ Keeps(th[p]) /\ Relies(th[p])
      BY DEF Inv, TypeInv
<1>2. th[p].todo # <<>>
      BY DEF Busy
<1>3. Head(th[p].todo) = th[p].todo[1]
      BY <1>1, <1>2, FirstStep
<1>4. th[p].token \in Tokens
      BY <1>1, <1>2 DEF InOrder
<1>5. QED
      BY <1>1, <1>2, <1>3, <1>4 DEF HeadIn, At, Busy

LEMMA StepsApart ==
    \A s \in Inputs \cup Asks \cup Silent \cup Reads :
        s \notin Writes \cup Finds \cup Takes \cup {"lookup", "ready"}
<1> DEFINE Acts == Writes \cup Finds \cup Takes \cup {"lookup", "ready"}
<1>1. \A s \in Acts : s \notin Inputs
  <2>1. "settle" \notin Inputs /\ "pair" \notin Inputs /\ "logout" \notin Inputs
      BY DEF Inputs
  <2>2. "clear" \notin Inputs /\ "delete" \notin Inputs /\ "forget" \notin Inputs
      BY DEF Inputs
  <2>3. "set" \notin Inputs /\ "toggle" \notin Inputs /\ "exists" \notin Inputs
      BY DEF Inputs
  <2>4. "write" \notin Inputs /\ "start" \notin Inputs /\ "stop" \notin Inputs
      BY DEF Inputs
  <2>5. "switch" \notin Inputs /\ "bot" \notin Inputs /\ "first" \notin Inputs
      BY DEF Inputs
  <2>6. "connection" \notin Inputs /\ "raw" \notin Inputs /\ "cast" \notin Inputs
      BY DEF Inputs
  <2>7. "lookup" \notin Inputs /\ "ready" \notin Inputs
      BY DEF Inputs
  <2>8. Acts \subseteq {"settle", "pair", "logout", "clear", "delete", "forget",
                       "set", "toggle", "exists", "write", "start", "stop",
                       "switch", "bot", "first", "connection", "raw", "cast",
                       "lookup", "ready"}
      BY DEF Writes, MakesOrDeletes, Finds, Takes
  <2> HIDE DEF Acts
  <2>9. QED
      BY <2>1, <2>2, <2>3, <2>4, <2>5, <2>6, <2>7, <2>8
<1>2. \A s \in Acts : s \notin Asks \cup Silent \cup Reads
  <2>1. \A s \in Acts : s \notin Asks
      BY DEF Asks, Writes, MakesOrDeletes, Finds, Takes
  <2>2. \A s \in Acts : s \notin Silent
      BY DEF Silent, Writes, MakesOrDeletes, Finds, Takes
  <2>3. \A s \in Acts : s \notin Reads
      BY DEF Reads, Writes, MakesOrDeletes, Finds, Takes
  <2>4. QED
      BY <2>1, <2>2, <2>3
<1>3. QED
      BY <1>1, <1>2

Reading(p) == CheckInputs(p) \/ Ask(p) \/ Ready(p) \/ Connection(p) \/ Client(p) \/ Request(p)
              \/ Read(p) \/ Raw(p) \/ Call(p) \/ Each(p) \/ Clear(p)

LEMMA ReadingKeepsInv ==
    ASSUME Inv, NEW p \in Procs, Reading(p)
    PROVE  Inv'
<1> DEFINE r == th[p]
<1>1. Busy(p) /\ UNCHANGED requests
      BY DEF Reading, CheckInputs, Ask, Ready, Connection, Client, Request, Read, Raw, Call,
             Each, Clear, At
<1>2. /\ r \in Thread /\ InOrder(r) /\ Keeps(r) /\ Head(r.todo) = r.todo[1]
      /\ \A S : HeadIn(r, S) <=> Head(r.todo) \in S
      /\ \A step : At(p, step) <=> Head(r.todo) = step
      /\ r.todo # <<>> /\ r.token \in Tokens
      BY <1>1, HeadIs DEF Busy
<1>3. Head(r.todo) \in Inputs \cup Asks \cup Silent \cup Reads
          \cup {"ready", "connection", "client", "request", "raw", "cast", "call", "each", "clear"}
      BY <1>2 DEF Reading, CheckInputs, Ask, Ready, Connection, Client, Request, Read, Raw, Call,
             Each, Clear
<1>4. ~ HeadIn(r, {"bot", "first", "lookup", "settle", "set", "toggle", "pair",
                   "exists", "write", "logout", "delete", "forget"})
  <2>1. CASE Head(r.todo) \in Inputs \cup Asks \cup Silent \cup Reads
      BY <1>2, <2>1, StepsApart DEF Writes, MakesOrDeletes, Finds
  <2>2. CASE Head(r.todo) \in {"ready", "connection", "client", "request", "raw", "cast", "call",
                              "each", "clear"}
      BY <1>2, <2>2
  <2>3. QED
      BY <1>3, <2>1, <2>2
<1>5. ~ HeadIn(r, {"pair", "exists", "write", "forget"})
      BY <1>4 DEF HeadIn
<1>6. ASSUME NEW a \in Answers, Answer(p, a), a = "panic" /\ r.ready => r.torn PROVE Inv'
      BY <1>1, <1>5, <1>6, IsAnswered
<1>7. ASSUME NEW a \in Answers, Answer(p, a), a # "panic" PROVE Inv'
      BY <1>6, <1>7
<1>8. {"done", "refused", "failed", "panic"} \subseteq Answers
      BY DEF Answers
<1>9. ASSUME Next1(p), ~ HeadIn(r, Takes) PROVE Inv'
      BY <1>1, <1>2, <1>4, <1>9, PopsOn DEF Next1
<1>10. ASSUME NEW d \in BOOLEAN, Set(p, Pop([r EXCEPT !.did = d])), ~ HeadIn(r, Takes) PROVE Inv'
  <2> DEFINE y == [r EXCEPT !.did = d]
  <2>1. /\ y \in Thread /\ y.todo = r.todo /\ y.token = r.token /\ y.bot = r.bot
        /\ y.found = r.found /\ y.created = r.created /\ y.answer = r.answer /\ y.torn = r.torn
        /\ y.conn = r.conn /\ y.ready = r.ready
      BY <1>2 DEF Thread
  <2>2. Set(p, Pop(y))
      BY <1>10
  <2> HIDE DEF y
  <2>3. QED
      BY <1>1, <1>4, <1>10, <2>1, <2>2, PopsOn
<1>11. HeadIn(r, UsesBot) => r.bot \in DOMAIN heap /\ r.bot # 0
      BY <1>2, HoldsBot
<1>12. HeadIn(r, UsesConn) => r.conn # 0
      BY <1>2, HoldsConn
<1>13. HeadIn(r, UsesConn) /\ r.conn \notin conns /\ r.ready => r.torn
  <2>1. ~ Waiting(r)
      BY <1>5 DEF Waiting, HeadIn
  <2>2. QED
      BY <1>2, <1>12, <2>1 DEF Keeps
<1>14. HeadIn(r, UsesBot) /\ Free(r.bot) /\ r.ready => r.torn
      BY <1>2, <1>11 DEF Keeps, Free
<1>15. ASSUME HeadIn(r, Takes), ~ Free(r.bot),
              Set(p, Pop([r EXCEPT !.conn = heap[r.bot].conn]))
       PROVE  Inv'
  <2> DEFINE y == [r EXCEPT !.conn = heap[r.bot].conn]
  <2>1. heap[r.bot].conn \in Nat /\ heap[r.bot].conn # 0
    <3>1. HeadIn(r, UsesBot)
          BY <1>15 DEF HeadIn, Takes, UsesBot
    <3>2. QED
          BY <1>11, <1>15, <3>1 DEF Free, Inv, TypeInv, Object
  <2>2. /\ y \in Thread /\ y.todo = r.todo /\ y.token = r.token /\ y.bot = r.bot
        /\ y.found = r.found /\ y.created = r.created /\ y.answer = r.answer /\ y.torn = r.torn
        /\ y.conn = heap[r.bot].conn /\ y.ready = r.ready
      BY <1>2, <2>1 DEF Thread
  <2>3. Set(p, Pop(y))
      BY <1>15
  <2> HIDE DEF y
  <2>4. y.conn # 0
      BY <2>1, <2>2
  <2>5. QED
      BY <1>1, <1>4, <1>15, <2>2, <2>3, <2>4, PopsOn
<1>16. CASE CheckInputs(p)
  <2>1. CASE Answer(p, "refused")
      BY <1>7, <1>8, <2>1
  <2>2. ASSUME NEW n \in 1..Len(r.todo), \A i \in 1..n : r.todo[i] \in Inputs,
               Set(p, IF n = Len(r.todo) THEN Answered(r, "done")
                      ELSE [r EXCEPT !.todo = SubSeq(r.todo, n + 1, Len(r.todo))])
        PROVE  Inv'
    <3>1. CASE n = Len(r.todo)
      <4>1. Answer(p, "done")
            BY <2>2, <3>1 DEF Answer
      <4>2. QED
            BY <1>7, <1>8, <4>1
    <3>2. CASE n # Len(r.todo)
      <4> DEFINE x == [r EXCEPT !.todo = Rest(r.todo, n)]
      <4>1. r.todo \in Seq(Steps) /\ Chained(r.todo)
            BY <1>2 DEF Thread, InOrder, Orderly
      <4>2. Rest(r.todo, n) \in Seq(Steps) /\ Rest(r.todo, n) # <<>>
            BY <2>2, <3>2, <4>1, RestType, NextStep
      <4>3. /\ x \in Thread /\ x.todo = Rest(r.todo, n) /\ x.token = r.token /\ x.bot = r.bot
            /\ x.found = r.found /\ x.created = r.created /\ x.answer = r.answer
            /\ x.torn = r.torn /\ x.conn = r.conn /\ x.ready = r.ready
            BY <1>2, <4>2 DEF Thread
      <4>4. Moved(r, n, x)
            BY <2>2, <4>2, <4>3 DEF Moved
      <4>5. th' = [th EXCEPT ![p] = x]
            BY <2>2, <3>2 DEF Set, Rest
      <4>6. \A i \in 1..n : r.todo[i] \notin {"bot", "first", "lookup", "settle", "set", "toggle",
                                   "pair", "exists", "write", "logout", "delete", "forget"}
            BY <2>2, StepsApart DEF Writes, MakesOrDeletes, Finds
      <4>7. \A i \in 1..n : r.todo[i] \notin Takes \cup {"ready", "clear"}
            BY <2>2, StepsApart DEF Writes, MakesOrDeletes
      <4> HIDE DEF x
      <4>8. QED
            BY <1>1, <4>3, <4>4, <4>5, <4>6, <4>7, GoesOn
    <3>3. QED
          BY <3>1, <3>2
  <2>3. QED
      BY <1>16, <2>1, <2>2 DEF CheckInputs
<1>17. CASE Ask(p)
  <2>1. ~ HeadIn(r, Takes)
      BY <1>2, <1>17 DEF Ask, Asks, Silent, Takes
  <2>2. QED
      BY <1>7, <1>8, <1>9, <1>17, <2>1 DEF Ask
<1>18. CASE Ready(p)
  <2>1. HeadIn(r, {"ready"}) /\ HeadIn(r, UsesBot) /\ ~ HeadIn(r, Takes)
      BY <1>2, <1>18 DEF Ready, UsesBot, Takes
  <2>2. CASE heap[r.bot].conn \in up
    <3> DEFINE y == [r EXCEPT !.ready = TRUE]
    <3>1. /\ y \in Thread /\ y.todo = r.todo /\ y.token = r.token /\ y.bot = r.bot
          /\ y.found = r.found /\ y.created = r.created /\ y.answer = r.answer /\ y.torn = r.torn
          /\ y.conn = r.conn
          BY <1>2 DEF Thread
    <3>2. Set(p, Pop(y))
          BY <1>18, <2>2 DEF Ready
    <3>3. heap[r.bot].conn # 0
          BY <2>2 DEF Inv, TypeInv
    <3> HIDE DEF y
    <3>4. QED
          BY <1>1, <1>4, <2>1, <3>1, <3>2, <3>3, PopsOn
  <2>3. CASE Answer(p, "refused")
      BY <1>7, <1>8, <2>3
  <2>4. QED
      BY <1>18, <2>2, <2>3 DEF Ready
<1>19. CASE Connection(p)
  <2>1. HeadIn(r, Takes)
      BY <1>2, <1>19 DEF Connection, Takes
  <2>2. QED
      BY <1>7, <1>8, <1>15, <1>19, <2>1 DEF Connection
<1>20. CASE Client(p)
  <2>1. ~ HeadIn(r, Takes)
      BY <1>2, <1>20 DEF Client, Takes
  <2>2. QED
      BY <1>7, <1>8, <1>9, <1>20, <2>1 DEF Client
<1>21. CASE Request(p)
  <2>1. ~ HeadIn(r, Takes)
      BY <1>2, <1>21 DEF Request, Takes
  <2>2. QED
      BY <1>7, <1>8, <1>10, <1>21, <2>1 DEF Request
<1>22. CASE Read(p)
  <2>1. ~ HeadIn(r, Takes) /\ HeadIn(r, UsesConn)
      BY <1>2, <1>22 DEF Read, Takes, UsesConn, Reads
  <2>2. QED
      BY <1>6, <1>7, <1>8, <1>9, <1>13, <1>22, <2>1 DEF Read
<1>23. CASE Raw(p)
  <2>1. HeadIn(r, Takes) /\ HeadIn(r, UsesBot)
      BY <1>2, <1>23 DEF Raw, Takes, UsesBot
  <2>2. QED
      BY <1>6, <1>8, <1>14, <1>15, <1>23, <2>1 DEF Raw
<1>24. CASE Call(p)
  <2>1. ~ HeadIn(r, Takes) /\ HeadIn(r, UsesConn)
      BY <1>2, <1>24 DEF Call, Takes, UsesConn
  <2>2. QED
      BY <1>6, <1>7, <1>8, <1>10, <1>13, <1>24, <2>1 DEF Call
<1>25. CASE Each(p)
  <2>1. ~ HeadIn(r, Takes) /\ HeadIn(r, UsesBot)
      BY <1>2, <1>25 DEF Each, Takes, UsesBot
  <2>2. ASSUME NEW d \in BOOLEAN, Set(p, Answered([r EXCEPT !.did = d], "failed")) PROVE Inv'
    <3> DEFINE y == [r EXCEPT !.did = d]
    <3>1. y \in Thread
          BY <1>2 DEF Thread
    <3>2. Ended(y, Answered(y, "failed")) /\ Answered(y, "failed").answer = "failed"
          BY <1>8, <3>1, AnsweredEnds
    <3>3. th' = [th EXCEPT ![p] = Answered(y, "failed")]
          BY <2>2 DEF Set
    <3> HIDE DEF y
    <3>4. ~ (Answered(y, "failed").answer = "panic")
          BY <3>2
    <3>5. QED
          BY <1>1, <1>5, <3>2, <3>3, <3>4, Ends
  <2>3. QED
      BY <1>6, <1>7, <1>8, <1>9, <1>10, <1>14, <1>25, <2>1, <2>2 DEF Each
<1>26. CASE Clear(p)
  <2>1. ~ HeadIn(r, Takes)
      BY <1>2, <1>26 DEF Clear, Takes
  <2>2. QED
      BY <1>7, <1>8, <1>9, <1>26, <2>1 DEF Clear
<1>27. QED
      BY <1>16, <1>17, <1>18, <1>19, <1>20, <1>21, <1>22, <1>23, <1>24, <1>25, <1>26 DEF Reading

(***************************************************************************)
(* Requests that begin, and those that find their bot.                     *)
(***************************************************************************)
LEMMA Rebound ==
    ASSUME Inv, NEW p \in Procs, NEW x \in Thread, NEW t \in Tokens, NEW steps,
           th' = [th EXCEPT ![p] = x],
           UNCHANGED <<storage, sessions, unsaved>>, starting' \subseteq starting,
           Join(p, steps, t) \/ clash' = clash \cup {t}, Range(x.todo) \subseteq steps,
           x.token = t, ~ x.created, x.conn = 0, ~ x.ready, InOrder(x),
           ~ HeadIn(th[p], {"pair", "exists", "write", "forget"}),
           ~ HeadIn(x, {"pair", "clear", "delete", "forget", "write"}),
           \/ x.bot = bots[t] \/ t \in clash'
           \/ x.bot = 0 /\ ~ HeadIn(x, {"settle"})
           \/ Range(x.todo) \cap Writes = {}
    PROVE  Inv'
<1>1. th'[p] = x /\ OthersAlike(p)
      BY DEF OthersAlike, Alike, Inv, TypeInv
<1>2. ClashInv' /\ clash \subseteq clash' /\ clash' \subseteq Tokens
      BY <1>1, JoinStays
<1>3. /\ UNCHANGED <<rows, bots, heap, conns, pairing, made, unsaved, replaced>>
      /\ up' \subseteq conns /\ starting' \subseteq DOMAIN heap
      BY DEF storage, sessions, Inv, TypeInv
<1>4. Keeps(x) /\ ~ Waiting(x)
      BY DEF Keeps, Waiting, HeadIn
<1>5. Relies(th[p])'
  <2>1. SUFFICES ASSUME t \notin clash'
        PROVE /\ Range(x.todo) \cap Writes # {} /\ (x.bot # 0 \/ HeadIn(x, {"settle"})) =>
                    bots[t] = x.bot
              /\ x.created \/ HeadIn(x, {"clear", "delete", "forget"}) => heap[x.bot].conn = 0
              /\ x.created \/ HeadIn(x, {"forget"}) => rows[t] = None
              /\ HeadIn(x, {"write"}) /\ x.found => rows[t] # None
      BY <1>1, <1>3 DEF Relies, HeadIn
  <2>2. QED
      BY <2>1 DEF HeadIn
<1>6. QED
      BY <1>2, <1>3, <1>4, <1>5, ThreadStep

LEMMA BeginKeepsInv ==
    ASSUME Inv, NEW p \in Procs, NEW route \in RoutesOf[p], NEW t \in Tokens, Begin(p, route, t)
    PROVE  Inv'
<1>1. /\ UNCHANGED requests /\ th[p].todo = <<>>
      /\ th' = [th EXCEPT ![p] = IF route = <<>> THEN Answered(Idle, "done")
                                 ELSE [Idle EXCEPT !.todo = route, !.token = t]]
      BY DEF Begin, Busy, Set
<1>2. /\ route \in Seq(Steps) /\ Orderly(route)
      /\ Preceded(route, UsesBot, Finds) /\ Preceded(route, UsesConn, Takes)
      /\ \A i \in DOMAIN route : route[i] # "pair"
      /\ route # <<>> => route[1] \notin Range(Follows)
      BY RoutesAssumption
<1>3. ~ HeadIn(th[p], {"pair", "exists", "write", "forget"})
      BY <1>1 DEF HeadIn
<1>4. Idle \in Thread
      BY EmptySeq DEF Idle, Thread, Answers
<1>5. CASE route = <<>>
  <2>1. Ended(Idle, Answered(Idle, "done")) /\ Answered(Idle, "done").answer = "done"
      BY <1>4, AnsweredEnds DEF Answers
  <2>2. ~ (Answered(Idle, "done").answer = "panic")
      BY <2>1
  <2>3. QED
      BY <1>1, <1>3, <1>5, <2>1, <2>2, Ends
<1>6. CASE route # <<>>
  <2> DEFINE x == [Idle EXCEPT !.todo = route, !.token = t]
  <2>1. /\ x \in Thread /\ x.todo = route /\ x.token = t /\ x.bot = 0 /\ x.conn = 0
        /\ ~ x.created /\ ~ x.ready /\ x.answer = "none"
      BY <1>2, <1>4 DEF Idle, Thread
  <2>2. th' = [th EXCEPT ![p] = x]
      BY <1>1, <1>6
  <2> HIDE DEF x
  <2>3. InOrder(x)
      BY <1>2, <2>1 DEF InOrder
  <2>4. ~ HeadIn(x, {"pair", "settle", "exists", "write", "clear", "delete", "forget"})
    <3>1. 1 \in DOMAIN route
          BY <1>2, <1>6, EmptySeq
    <3>2. QED
          BY <1>2, <1>6, <2>1, <3>1, FollowsFacts DEF HeadIn
  <2>5. OthersAlike(p) /\ th'[p] = x
      BY <2>2 DEF OthersAlike, Alike, Inv, TypeInv
  <2>6. Lighter(th[p], x)
      BY <2>1, <2>4 DEF Lighter, IsMaking, IsChanging, InUse, HeadIn
  <2>7. /\ UNCHANGED <<rows, bots, heap, conns, pairing, made, unsaved, replaced>>
        /\ up' \subseteq conns /\ starting' \subseteq DOMAIN heap
        /\ clash' = clash /\ clash' \subseteq Tokens
      BY <1>1 DEF requests, Inv, TypeInv
  <2>8. ClashInv'
      BY <2>5, <2>6, <2>7, ClashStays DEF Inv
  <2>9. Keeps(x) /\ ~ Waiting(x)
      BY <2>1, <2>4 DEF Keeps, Waiting, HeadIn
  <2>10. Relies(th[p])'
      BY <2>1, <2>4, <2>5 DEF Relies, HeadIn
  <2>11. QED
      BY <1>3, <2>1, <2>2, <2>3, <2>7, <2>8, <2>9, <2>10, ThreadStep
<1>7. QED
      BY <1>5, <1>6

LEMMA BotKeepsInv ==
    ASSUME Inv, NEW p \in Procs, Bot(p) \/ Lookup(p)
    PROVE  Inv'
<1> DEFINE r == th[p]
           t == r.token
           y == [r EXCEPT !.bot = bots[t]]
           x == Pop(y)
<1>1. Busy(p) /\ (At(p, "bot") \/ At(p, "lookup"))
      BY DEF Bot, Lookup, At
<1>2. /\ r \in Thread /\ InOrder(r) /\ Head(r.todo) = r.todo[1]
      /\ \A S : HeadIn(r, S) <=> Head(r.todo) \in S
      /\ \A step : At(p, step) <=> Head(r.todo) = step
      /\ r.todo # <<>> /\ t \in Tokens
      BY <1>1, HeadIs DEF Busy
<1>3. ~ HeadIn(r, {"pair", "exists", "write", "forget"})
      BY <1>1, <1>2
<1>4. UNCHANGED <<storage, sessions, control, unsaved>>
      BY DEF Bot, Lookup
<1>5. CASE Answer(p, "refused") /\ UNCHANGED clash
  <2>1. UNCHANGED requests
      BY <1>4, <1>5 DEF requests, storage, sessions, control
  <2>2. QED
      BY <1>3, <1>5, <2>1, IsAnswered DEF Answers
<1>6. CASE /\ Set(p, x) /\ Join(p, Ahead(p), t)
           /\ At(p, "bot") => Registered(t)
  <2>1. bots[t] \in {0} \cup DOMAIN heap /\ (bots[t] # 0 => heap[bots[t]].token = t) /\ bots[t] \in Nat
      BY <1>2 DEF Inv, TypeInv
  <2>2. ~ r.ready /\ r.conn = 0 /\ ~ r.created
    <3>1. r.todo[1] \in Range(r.todo) /\ r.todo[1] \in Rebinds
          BY <1>1, <1>2, FirstStep DEF Rebinds
    <3>2. ~ r.ready /\ ~ (r.conn # 0)
          BY <1>2, <3>1 DEF InOrder
    <3>3. ~ r.created
          BY <1>2, <1>3 DEF InOrder, HeadIn
    <3>4. QED
          BY <3>2, <3>3
  <2>3. /\ y \in Thread /\ y.todo = r.todo /\ y.token = t /\ y.bot = bots[t]
        /\ y.created = r.created /\ y.answer = r.answer /\ y.torn = r.torn
        /\ y.conn = 0 /\ y.ready = FALSE
      BY <1>2, <2>1, <2>2 DEF Thread
  <2>4. /\ x \in Thread
        /\ \/ Ended(y, x) /\ x.answer = "done"
           \/ Moved(y, 1, x) /\ x = [y EXCEPT !.todo = Rest(y.todo, 1)]
      BY <1>2, <2>3, PopMoves
  <2>5. th' = [th EXCEPT ![p] = x]
      BY <1>6 DEF Set
  <2> HIDE DEF x, y
  <2>6. CASE Ended(y, x) /\ x.answer = "done"
    <3>1. clash \subseteq clash' /\ clash' \subseteq Tokens
          BY <1>2, <1>6 DEF Join, Inv, TypeInv
    <3>2. /\ UNCHANGED <<rows, bots, heap, conns, pairing, made, unsaved, replaced>>
          /\ up' \subseteq conns /\ starting' \subseteq DOMAIN heap
          BY <1>4 DEF storage, sessions, control, Inv, TypeInv
    <3>3. ~ (x.answer = "panic")
          BY <2>6
    <3>4. QED
          BY <1>3, <2>5, <2>6, <3>1, <3>2, <3>3, EndsAnyway
  <2>7. CASE Moved(y, 1, x) /\ x = [y EXCEPT !.todo = Rest(y.todo, 1)]
    <3>1. /\ Moved(r, 1, x) /\ x.token = t /\ x.bot = bots[t] /\ ~ x.created /\ ~ x.ready
          /\ x.conn = 0 /\ x.todo = Rest(r.todo, 1) /\ x.todo # <<>>
          BY <2>2, <2>3, <2>7 DEF Moved, Thread
    <3>2. Chained(r.todo) /\ r.todo \in Seq(Steps) /\ 1 \in 1..Len(r.todo)
          BY <1>2, FirstStep DEF InOrder, Orderly
    <3>3. \/ r.todo[1] = "bot" /\ x.todo[1] \notin Range(Follows)
          \/ r.todo[1] = "lookup" /\ x.todo[1] = "settle"
          BY <1>1, <1>2, <3>1, <3>2, NextStep, FollowsFacts
    <3>4. ~ HeadIn(x, {"clear", "delete", "forget", "write"})
          BY <3>3, FollowsFacts DEF HeadIn
    <3>5. x.bot = 0 => HeadIn(x, Finds)
          BY <1>2, <1>6, <3>1, <3>3 DEF HeadIn, Finds, Registered
    <3>6. r.todo[1] \notin Takes
          BY <3>3 DEF Takes
    <3>7. InOrder(x)
          BY <1>2, <2>1, <2>2, <3>1, <3>5, <3>6, MovedInOrder
    <3>8. Range(x.todo) \subseteq Ahead(p)
          BY <3>1, <3>2, RestRange DEF Ahead
    <3>9. x.todo[1] # "pair"
          BY <1>2, <3>1, GoesOnApart
    <3>10. ~ HeadIn(x, {"pair", "clear", "delete", "forget", "write"})
          BY <3>4, <3>9 DEF HeadIn
    <3>11. starting' \subseteq starting
          BY <1>4 DEF control
    <3>12. QED
          BY <1>2, <1>3, <1>4, <1>6, <2>4, <2>5, <3>1, <3>7, <3>8, <3>10, <3>11, Rebound
  <2>8. QED
      BY <2>4, <2>6, <2>7
<1>7. QED
  <2>1. CASE Lookup(p)
    <3>1. Set(p, x) /\ Join(p, Ahead(p), t) /\ At(p, "lookup")
          BY <2>1 DEF Lookup
    <3>2. ~ At(p, "bot")
          BY <1>2, <3>1
    <3>3. QED
          BY <1>6, <3>1, <3>2
  <2>2. CASE Bot(p)
    <3>1. CASE Registered(t)
          BY <1>6, <2>2, <3>1 DEF Bot
    <3>2. CASE ~ Registered(t)
          BY <1>5, <2>2, <3>2 DEF Bot
    <3>3. QED
          BY <3>1, <3>2
  <2>3. QED
      BY <2>1, <2>2

LEMMA FirstKeepsInv ==
    ASSUME Inv, NEW p \in Procs, First(p)
    PROVE  Inv'
<1> DEFINE r == th[p]
<1>1. Busy(p) /\ At(p, "first") /\ UNCHANGED requests
      BY DEF First, At
<1>2. /\ r \in Thread /\ InOrder(r) /\ Head(r.todo) = r.todo[1]
      /\ \A S : HeadIn(r, S) <=> Head(r.todo) \in S
      /\ r.todo # <<>> /\ r.todo[1] = "first"
      BY <1>1, HeadIs DEF Busy
<1>3. ~ HeadIn(r, {"pair", "exists", "write", "forget"})
      BY <1>2
<1>4. CASE Answer(p, "refused")
      BY <1>1, <1>3, <1>4, IsAnswered DEF Answers
<1>5. ASSUME NEW t \in Tokens, Registered(t),
             Set(p, Pop([r EXCEPT !.token = t, !.bot = bots[t]]))
      PROVE  Inv'
  <2> DEFINE y == [r EXCEPT !.token = t, !.bot = bots[t]]
             x == Pop(y)
  <2>1. bots[t] \in DOMAIN heap /\ heap[bots[t]].token = t /\ bots[t] \in Nat /\ bots[t] # 0
      BY <1>5 DEF Inv, TypeInv, Registered
  <2>2. ~ r.ready /\ r.conn = 0 /\ ~ r.created
    <3>1. r.todo[1] \in Range(r.todo) /\ r.todo[1] \in Rebinds
          BY <1>2, FirstStep DEF Rebinds
    <3>2. ~ r.ready /\ ~ (r.conn # 0)
          BY <1>2, <3>1 DEF InOrder
    <3>3. ~ r.created
          BY <1>2, <1>3 DEF InOrder, HeadIn
    <3>4. QED
          BY <3>2, <3>3
  <2>3. /\ y \in Thread /\ y.todo = r.todo /\ y.token = t /\ y.bot = bots[t]
        /\ y.created = r.created /\ y.answer = r.answer /\ y.torn = r.torn
        /\ y.conn = 0 /\ y.ready = FALSE
      BY <1>2, <2>1, <2>2 DEF Thread
  <2>4. /\ x \in Thread
        /\ \/ Ended(y, x) /\ x.answer = "done"
           \/ Moved(y, 1, x) /\ x = [y EXCEPT !.todo = Rest(y.todo, 1)]
      BY <1>2, <2>3, PopMoves
  <2>5. th' = [th EXCEPT ![p] = x]
      BY <1>5 DEF Set
  <2> HIDE DEF x, y
  <2>6. CASE Ended(y, x) /\ x.answer = "done"
    <3>1. ~ (x.answer = "panic")
          BY <2>6
    <3>2. QED
          BY <1>1, <1>3, <2>5, <2>6, <3>1, Ends
  <2>7. CASE Moved(y, 1, x) /\ x = [y EXCEPT !.todo = Rest(y.todo, 1)]
    <3>1. /\ Moved(r, 1, x) /\ x.token = t /\ x.bot = bots[t] /\ ~ x.created /\ ~ x.ready
          /\ x.conn = 0 /\ x.todo = Rest(r.todo, 1) /\ x.todo # <<>>
          BY <2>2, <2>3, <2>7 DEF Moved, Thread
    <3>2. NeverAfter(r.todo, {"first"}, Writes) /\ r.todo \in Seq(Steps) /\ 1 \in 1..Len(r.todo)
          BY <1>2, FirstStep DEF InOrder, Orderly
    <3>3. Range(x.todo) \cap Writes = {}
          BY <1>2, <3>1, <3>2, RestAvoids
    <3>4. x \in Thread /\ x.todo[1] \in Range(x.todo)
          BY <2>4, <3>1, FirstStep
    <3>5. ~ HeadIn(x, Writes)
          BY <3>3, <3>4 DEF HeadIn
    <3>6. ~ HeadIn(x, {"pair", "settle", "exists", "write", "clear", "delete", "forget"})
          BY <3>5 DEF HeadIn, Writes, MakesOrDeletes
    <3>7. \A i \in 1..1 : r.todo[i] \notin Takes
          BY <1>2 DEF Takes
    <3>8. InOrder(x)
          BY <1>2, <2>1, <2>2, <3>1, <3>7, MovedInOrder
    <3>9. OthersAlike(p) /\ th'[p] = x
          BY <2>5 DEF OthersAlike, Alike, Inv, TypeInv
    <3>10. Lighter(th[p], x)
          BY <3>1, <3>3 DEF Lighter, IsMaking, IsChanging, Writes
    <3>11. /\ UNCHANGED <<rows, bots, heap, conns, pairing, made, unsaved, replaced>>
           /\ up' \subseteq conns /\ starting' \subseteq DOMAIN heap
           /\ clash' = clash /\ clash' \subseteq Tokens
          BY <1>1 DEF requests, Inv, TypeInv
    <3>12. ClashInv'
          BY <3>9, <3>10, <3>11, ClashStays DEF Inv
    <3>13. Keeps(x) /\ ~ Waiting(x)
          BY <3>1, <3>6 DEF Keeps, Waiting, HeadIn
    <3>14. Relies(th[p])'
          BY <3>1, <3>3, <3>6, <3>9 DEF Relies, HeadIn
    <3>15. QED
          BY <1>3, <2>4, <2>5, <3>1, <3>8, <3>11, <3>12, <3>13, <3>14, ThreadStep
  <2>8. QED
      BY <2>4, <2>6, <2>7
<1>6. QED
      BY <1>4, <1>5 DEF First

LEMMA InitializeKeepsInv ==
    ASSUME Inv, NEW p \in Procs, Initialize(p)
    PROVE  Inv'
<1> USE DEF Inv, TypeInv
<1>1. PICK o \in starting :
        /\ th[p].todo = <<>> /\ starting' = starting \ {o}
        /\ th' = [th EXCEPT ![p] = [Idle EXCEPT !.todo = <<"start">>, !.token = heap[o].token, !.bot = o]]
        /\ IF bots[heap[o].token] = o THEN Join(p, {"start"}, heap[o].token)
           ELSE clash' = clash \cup {heap[o].token}
        /\ UNCHANGED <<storage, sessions, begun, unsaved>>
      BY DEF Initialize, Busy, Set
<1> DEFINE t == heap[o].token
           x == [Idle EXCEPT !.todo = <<"start">>, !.token = t, !.bot = o]
<1>2. o \in DOMAIN heap /\ o # 0 /\ o \in Nat /\ t \in Tokens
  <2>1. o \in DOMAIN heap /\ DOMAIN heap \subseteq Nat \ {0} /\ heap \in [DOMAIN heap -> Object]
      BY <1>1
  <2>2. QED
      BY <2>1 DEF Object
<1> HIDE DEF Inv, TypeInv
<1>3. Idle \in Thread
      BY EmptySeq DEF Idle, Thread, Answers
<1>4. /\ x \in Thread /\ x.todo = <<"start">> /\ x.token = t /\ x.bot = o /\ x.conn = 0
      /\ ~ x.created /\ ~ x.ready /\ x.answer = "none"
  <2>1. <<"start">> \in Seq(Steps)
    <3>1. "start" \in Steps
          BY DEF Steps, Writes
    <3>2. QED
          BY <3>1
  <2>2. x \in Thread /\ x.todo = <<"start">> /\ x.token = t /\ x.bot = o
      BY <1>2, <1>3, <2>1 DEF Thread
  <2>3. x.conn = 0 /\ ~ x.created /\ ~ x.ready /\ x.answer = "none"
      BY DEF Idle
  <2>4. QED
      BY <2>2, <2>3
<1>5. th' = [th EXCEPT ![p] = x]
      BY <1>1
<1> HIDE DEF x
<1>6. DOMAIN x.todo = {1} /\ x.todo[1] = "start" /\ x.todo # <<>> /\ Range(x.todo) = {"start"} /\ Len(x.todo) = 1
      BY <1>4 DEF Range
<1>7. Orderly(x.todo)
  <2>1. Chained(x.todo)
      BY <1>6, FollowsFacts DEF Chained
  <2>2. ASSUME NEW A, NEW B PROVE NeverAfter(x.todo, A, B)
      BY <1>6 DEF NeverAfter
  <2>3. QED
      BY <2>1, <2>2 DEF Orderly
<1>8. Preceded(x.todo, UsesConn, Takes)
      BY <1>6 DEF Preceded, UsesConn, Reads
<1>9. InOrder(x)
      BY <1>2, <1>4, <1>6, <1>7, <1>8 DEF InOrder
<1>10. ~ HeadIn(x, {"pair", "clear", "delete", "forget", "write"})
      BY <1>6 DEF HeadIn
<1>11. ~ HeadIn(th[p], {"pair", "exists", "write", "forget"})
      BY <1>1 DEF HeadIn
<1>12. Join(p, {"start"}, t) \/ clash' = clash \cup {t}
      BY <1>1
<1>13. x.bot = bots[t] \/ t \in clash'
      BY <1>1, <1>4
<1>14. Range(x.todo) \subseteq {"start"} /\ starting' \subseteq starting
      BY <1>1, <1>6
<1>15. QED
      BY <1>1, <1>2, <1>4, <1>5, <1>9, <1>10, <1>11, <1>12, <1>13, <1>14, Rebound

LEMMA UpKeepsInv ==
    ASSUME Inv, Drop \/ Return
    PROVE  Inv'
<1>1. /\ UNCHANGED <<rows, bots, heap, conns, pairing, made, replaced, starting, th, clash, unsaved>>
      /\ up' \subseteq conns
      BY DEF Drop, Return, storage, control, history, Inv, TypeInv
<1>2. TypeInv'
  <2>1. Thread' = Thread /\ Object' = Object /\ Row' = Row
      BY DEF Thread, Object, Row
  <2>2. QED
      BY <1>1, <2>1 DEF Inv, TypeInv
<1>3. ClashInv'
      BY <1>1 DEF Inv, ClashInv, IsMaking, IsChanging, InUse, HeadIn
<1>4. Apart'
      BY <1>1 DEF Inv, Apart, Waiting, HeadIn
<1>5. Owned'
      BY <1>1 DEF Inv, Owned, Waiting, HeadIn
<1>6. RowsInv'
      BY <1>1 DEF Inv, RowsInv, Agree, Pending, Registered, HeadIn
<1>7. ASSUME NEW q \in Procs PROVE InOrder(th[q])' /\ Keeps(th[q])' /\ Relies(th[q])'
  <2>1. InOrder(th[q])'
      BY <1>1 DEF Inv, InOrder, HeadIn
  <2>2. Keeps(th[q])'
      BY <1>1 DEF Inv, Keeps, Waiting, HeadIn
  <2>3. Relies(th[q])'
      BY <1>1 DEF Inv, Relies, HeadIn
  <2>4. QED
      BY <2>1, <2>2, <2>3
<1>8. QED
      BY <1>2, <1>3, <1>4, <1>5, <1>6, <1>7 DEF Inv

LEMMA FollowsOn ==
    ASSUME NEW y \in Thread, y.todo # <<>>, Chained(y.todo)
    PROVE  /\ y.todo[1] \in DOMAIN Follows =>
                 /\ Moved(y, 1, Pop(y)) /\ Pop(y) = [y EXCEPT !.todo = Rest(y.todo, 1)]
                 /\ Pop(y).todo[1] = Follows[y.todo[1]]
           /\ y.todo[1] \in {"write", "forget"} => Ended(y, Pop(y)) /\ Pop(y).answer = "done"
<1>1. y.todo \in Seq(Steps) /\ 1 \in 1..Len(y.todo)
      BY FirstStep
<1>2. /\ y.todo[1] \in DOMAIN Follows =>
            Rest(y.todo, 1) # <<>> /\ Rest(y.todo, 1)[1] = Follows[y.todo[1]]
      /\ y.todo[1] \in {"write", "forget"} => Rest(y.todo, 1) = <<>>
      BY <1>1, NextStep
<1>3. (Ended(y, Pop(y)) /\ Pop(y).answer = "done") \/ Moved(y, 1, Pop(y))
      BY PopMoves
<1>4. ~ (Ended(y, Pop(y)) /\ Moved(y, 1, Pop(y)))
      BY DEF Ended, Moved
<1>5. CASE Rest(y.todo, 1) # <<>>
  <2>1. Moved(y, 1, Pop(y)) /\ Pop(y) = [y EXCEPT !.todo = Rest(y.todo, 1)]
      BY <1>5, PopMoves
  <2>2. Pop(y).todo = Rest(y.todo, 1)
      BY <2>1 DEF Moved
  <2>3. QED
      BY <1>2, <1>5, <2>1, <2>2
<1>6. CASE Rest(y.todo, 1) = <<>>
  <2>1. Ended(y, Pop(y))
      BY <1>6, PopMoves
  <2>2. QED
      BY <1>2, <1>3, <1>4, <1>6, <2>1
<1>7. QED
      BY <1>5, <1>6

(***************************************************************************)
(* Steps that change the table, the map or an object, and leave the        *)
(* connections alone.                                                      *)
(***************************************************************************)
LEMMA TableStep ==
    ASSUME Inv, NEW p \in Procs, NEW x \in Thread, th' = [th EXCEPT ![p] = x],
           UNCHANGED <<sessions, control, clash>>, unsaved' \subseteq Tokens,
           rows' \in [Tokens -> Row \cup {None}],
           heap' \in [DOMAIN heap' -> Object], IsFiniteSet(DOMAIN heap'),
           DOMAIN heap' \subseteq Nat \ {0}, DOMAIN heap \subseteq DOMAIN heap',
           bots' \in [Tokens -> {0} \cup DOMAIN heap'],
           \A t \in Tokens : bots'[t] # 0 => heap'[bots'[t]].token = t,
           \A o \in DOMAIN heap : heap'[o].token = heap[o].token /\ heap'[o].conn = heap[o].conn,
           \A o \in DOMAIN heap' \ DOMAIN heap : heap'[o].conn = 0,
           \A t \in Tokens : bots'[t] # bots[t] =>
               /\ th[p].token = t /\ IsMaking(th[p])
               /\ t \in clash \/ bots[t] = 0 \/ heap[bots[t]].conn = 0,
           \A t \in Tokens : rows'[t] # rows[t] =>
               th[p].token = t /\ (IsMaking(th[p]) \/ (IsChanging(th[p]) /\ rows'[t] # None)),
           Lighter(th[p], x), ~ Waiting(th[p]), ~ Waiting(x), x.conn \in {0, th[p].conn},
           InOrder(th[p])', Keeps(th[p])', Relies(th[p])', RowsInv'
    PROVE  Inv'
<1>1. th'[p] = x /\ OthersAlike(p) /\ \A q \in Procs \ {p} : th'[q] = th[q]
      BY DEF OthersAlike, Alike, Inv, TypeInv
<1>2. UNCHANGED <<conns, up, pairing, made, replaced, starting, clash>>
      BY DEF sessions, control
<1>3. TypeInv'
  <2>1. th' \in [Procs -> Thread]
      BY DEF Inv, TypeInv
  <2>2. Thread' = Thread /\ Object' = Object /\ Row' = Row
      BY DEF Thread, Object, Row
  <2>3. QED
      BY <1>2, <2>1, <2>2 DEF Inv, TypeInv
<1>4. ClashInv'
      BY <1>1, <1>2, ClashStays DEF Inv
<1>5. \A o \in DOMAIN heap' : heap'[o].conn # 0 => o \in DOMAIN heap /\ heap'[o].conn = heap[o].conn
      OBVIOUS
<1>6. \A q \in Procs : Waiting(th'[q]) => q # p /\ Waiting(th[q]) /\ th'[q] = th[q]
      BY <1>1
<1>7. Apart'
  <2>1. replaced' \subseteq conns' /\ DOMAIN pairing' \subseteq conns' \ replaced'
      BY <1>2 DEF Inv, Apart
  <2>2. ASSUME NEW o \in DOMAIN heap', heap'[o].conn # 0
        PROVE  /\ heap'[o].conn \in conns' \ (DOMAIN pairing' \cup replaced')
               /\ \A u \in DOMAIN heap' : heap'[u].conn = heap'[o].conn => u = o
      BY <1>2, <1>5, <2>2 DEF Inv, Apart
  <2>3. 0 \in (0..made) \ DOMAIN pairing
    <3>1. conns \subseteq 1..made /\ made \in Nat /\ DOMAIN pairing \subseteq conns
          BY DEF Inv, TypeInv, Apart
    <3>2. QED
          BY <3>1
  <2>4. \A q \in Procs : th'[q].conn \in (0..made') \ DOMAIN pairing'
      BY <1>1, <1>2, <2>3 DEF Inv, Apart
  <2>5. ASSUME NEW q \in Procs, Waiting(th'[q])
        PROVE  /\ th'[q].conn \in conns' \ replaced'
               /\ \A o \in DOMAIN heap' : heap'[o].conn # th'[q].conn
               /\ \A u \in Procs \ {q} : th'[u].conn # th'[q].conn
    <3>1. q # p /\ th'[q] = th[q] /\ Waiting(th[q])
          BY <1>6, <2>5
    <3>2. /\ th[q].conn \in conns \ replaced
          /\ \A o \in DOMAIN heap : heap[o].conn # th[q].conn
          /\ \A u \in Procs \ {q} : th[u].conn # th[q].conn
          BY <3>1 DEF Inv, Apart
    <3>3. th[q].conn # 0
          BY <3>2 DEF Inv, TypeInv
    <3>4. x.conn # th[q].conn
          BY <3>1, <3>2, <3>3
    <3>5. \A o \in DOMAIN heap' : heap'[o].conn # th[q].conn
          BY <1>5, <3>2, <3>3
    <3>6. QED
          BY <1>1, <1>2, <3>1, <3>2, <3>4, <3>5
  <2>6. QED
      BY <2>1, <2>2, <2>4, <2>5 DEF Apart, Waiting, HeadIn
<1>8. Owned'
  <2>1. ASSUME NEW o \in DOMAIN heap', heap'[o].conn # 0
        PROVE  bots'[heap'[o].token] = o \/ heap'[o].token \in clash'
    <3> DEFINE t == heap[o].token
    <3>1. o \in DOMAIN heap /\ heap'[o].token = t /\ heap[o].conn # 0 /\ o # 0
          BY <1>5, <2>1
    <3>2. t \in Tokens
          BY <3>1 DEF Inv, TypeInv, Object
    <3>3. bots[t] = o \/ t \in clash
          BY <3>1 DEF Inv, Owned
    <3>4. QED
          BY <1>2, <3>1, <3>2, <3>3
  <2>2. ASSUME NEW c \in conns'
        PROVE  \/ c \in replaced' \cup DOMAIN pairing'
               \/ \E o \in DOMAIN heap' : heap'[o].conn = c
               \/ \E q \in Procs : Waiting(th'[q]) /\ th'[q].conn = c
    <3>1. \/ c \in replaced \cup DOMAIN pairing
          \/ \E o \in DOMAIN heap : heap[o].conn = c
          \/ \E q \in Procs : Waiting(th[q]) /\ th[q].conn = c
          BY <1>2 DEF Inv, Owned
    <3>2. \A q \in Procs : Waiting(th[q]) => th'[q] = th[q]
          BY <1>1
    <3>3. QED
          BY <1>2, <3>1, <3>2
  <2>3. QED
      BY <2>1, <2>2 DEF Owned, Waiting, HeadIn
<1>9. ASSUME NEW q \in Procs PROVE InOrder(th[q])' /\ Keeps(th[q])' /\ Relies(th[q])'
  <2>1. CASE q = p
      BY <2>1
  <2>2. CASE q # p
    <3>1. /\ th'[q] = th[q] /\ Alike(th[q], th'[q]) /\ InOrder(th[q]) /\ Keeps(th[q])
          /\ Relies(th[q]) /\ th[q] \in Thread /\ th[p] \in Thread /\ InOrder(th[p])
          BY <1>1, <2>2 DEF OthersAlike, Inv, TypeInv
    <3>2. InOrder(th[q])'
          BY <3>1, OthersKeepOrder
    <3>3. Keeps(th[q])'
      <4>1. conns' = conns /\ replaced' = replaced
            BY <1>2
      <4>2. th[q].bot # 0 => th[q].bot \in DOMAIN heap
            BY <3>1 DEF InOrder
      <4>3. th[q].bot # 0 => heap'[th[q].bot].conn = heap[th[q].bot].conn
            BY <4>2
      <4>4. QED
            BY <3>1, <4>1, <4>3 DEF Keeps, Waiting, HeadIn
    <3>4. Relies(th[q])'
          BY <1>2, <2>2, <3>1, OthersRely DEF Inv
    <3>5. QED
          BY <3>2, <3>3, <3>4
  <2>3. QED
      BY <2>1, <2>2
<1>10. QED
      BY <1>3, <1>4, <1>7, <1>8, <1>9 DEF Inv

\* what holds of a goroutine does not go away with such a step
LEMMA StillInOrder ==
    ASSUME NEW p \in Procs, NEW x, th'[p] = x, InOrder(x), Keeps(x),
           DOMAIN heap \subseteq DOMAIN heap', UNCHANGED <<conns, replaced>>,
           \A o \in DOMAIN heap : heap'[o].token = heap[o].token /\ heap'[o].conn = heap[o].conn
    PROVE  InOrder(th[p])' /\ Keeps(th[p])'
<1>1. InOrder(th[p])'
      BY DEF InOrder, HeadIn
<1>2. Keeps(th[p])'
      BY DEF Keeps, Waiting, HeadIn, InOrder
<1>3. QED
      BY <1>1, <1>2

LEMMA PendingStays ==
    ASSUME NEW p \in Procs, \A q \in Procs \ {p} : th'[q] = th[q], NEW t,
           Pending(t), th[p].token # t \/ ~ HeadIn(th[p], {"exists", "write", "forget"})
    PROVE  Pending(t)'
BY DEF Pending, HeadIn

LEMMA EndedIs ==
    ASSUME NEW r, NEW x, Ended(r, x), x.answer # "panic"
    PROVE  /\ x \in Thread /\ InOrder(x) /\ Keeps(x) /\ ~ Waiting(x) /\ x.todo = <<>>
           /\ ~ IsMaking(x) /\ ~ IsChanging(x) /\ x.conn = 0 /\ x.bot = 0
<1>1. x \in Thread /\ x.todo = <<>> /\ x.bot = 0 /\ x.conn = 0
      BY DEF Ended
<1>2. ~ InUse(x) /\ ~ Waiting(x)
      BY <1>1 DEF InUse, Waiting, HeadIn
<1>3. ~ IsMaking(x) /\ ~ IsChanging(x)
      BY <1>2 DEF IsMaking, IsChanging
<1>4. Keeps(x)
      BY <1>1 DEF Keeps
<1>5. InOrder(x)
      BY EndedInOrder
<1>6. QED
      BY <1>1, <1>2, <1>3, <1>4, <1>5

\* a step of a chain, taken with the bot in hand
LEMMA StepsOn ==
    ASSUME Inv, NEW p \in Procs, Busy(p), NEW y \in Thread,
           y.todo = th[p].todo, y.token = th[p].token, y.bot = th[p].bot, y.conn = th[p].conn,
           y.created = th[p].created, y.ready = th[p].ready, y.answer = th[p].answer,
           y.torn = th[p].torn, th[p].bot # 0,
           th[p].todo[1] \in {"set", "settle", "toggle", "exists", "logout", "delete"}
    PROVE  /\ Pop(y) \in Thread /\ Moved(th[p], 1, Pop(y))
           /\ Pop(y).todo # <<>> /\ Pop(y).todo[1] = Follows[th[p].todo[1]]
           /\ Pop(y).token = th[p].token /\ Pop(y).bot = th[p].bot
           /\ Pop(y).conn = th[p].conn /\ Pop(y).found = y.found
           /\ Pop(y).created = th[p].created /\ Pop(y).ready = th[p].ready
           /\ Pop(y).torn = th[p].torn
           /\ InOrder(Pop(y)) /\ Keeps(Pop(y)) /\ ~ Waiting(Pop(y))
           /\ Lighter(th[p], Pop(y)) /\ ~ Waiting(th[p])
<1> DEFINE r == th[p]
           x == Pop(y)
<1>1. /\ r \in Thread /\ InOrder(r) /\ Keeps(r) /\ r.todo # <<>> /\ r.token \in Tokens
      BY HeadIs DEF Busy
<1>2. y.todo[1] \in DOMAIN Follows /\ Chained(y.todo) /\ y.todo # <<>>
      BY <1>1, FollowsFacts DEF InOrder, Orderly
<1>3. /\ Moved(y, 1, x) /\ x = [y EXCEPT !.todo = Rest(y.todo, 1)]
      /\ x.todo[1] = Follows[r.todo[1]]
      BY <1>2, FollowsOn
<1>4. /\ x.token = r.token /\ x.bot = r.bot /\ x.conn = r.conn /\ x.found = y.found
      /\ x.created = r.created /\ x.ready = r.ready /\ x.torn = r.torn
      BY <1>3 DEF Thread
<1>5. x \in Thread /\ x.todo # <<>> /\ Moved(r, 1, x)
      BY <1>3 DEF Moved
<1> HIDE DEF x
<1>6. x.todo[1] \in {"exists", "write", "clear", "forget"}
      BY <1>3, FollowsFacts
<1>7. ~ HeadIn(x, {"settle", "pair"}) /\ ~ Waiting(x) /\ ~ Waiting(r)
      BY <1>6 DEF HeadIn, Waiting
<1>8. Range(x.todo) \subseteq Range(r.todo)
      BY <1>1, <1>5, GoesOnApart
<1>9. Lighter(r, x)
      BY <1>4, <1>7, <1>8 DEF Lighter, IsMaking, IsChanging, InUse
<1>10. x.created => HeadIn(x, {"exists", "write"}) /\ x.bot # 0
  <2>1. ASSUME r.created PROVE r.todo[1] = "exists"
      BY <1>1, <2>1 DEF InOrder, HeadIn
  <2>2. QED
      BY <1>3, <1>4, <1>5, <2>1, FollowsFacts DEF HeadIn
<1>11. InOrder(x)
  <2>1. r.bot \in {0} \cup DOMAIN heap /\ (r.bot # 0 => heap[r.bot].token = r.token)
      BY <1>1 DEF InOrder
  <2>2. \A i \in 1..1 : r.todo[i] \notin Takes
      BY DEF Takes
  <2>3. QED
      BY <1>1, <1>4, <1>5, <1>10, <2>1, <2>2, MovedInOrder
<1>12. Keeps(x)
      BY <1>1, <1>4, <1>7 DEF Keeps
<1>13. QED
      BY <1>3, <1>4, <1>5, <1>7, <1>9, <1>11, <1>12 DEF x

LEMMA SaveFailsKeepsInv ==
    ASSUME Inv, NEW p \in Procs, HeadIn(th[p], {"exists", "write"}), SaveFails(p),
           UNCHANGED <<rows, heap, sessions, control, clash>>
    PROVE  Inv'
<1> DEFINE r == th[p]
           t == r.token
           x == Answered(r, "failed")
<1>1. /\ Busy(p) /\ r \in Thread /\ InOrder(r) /\ Relies(r) /\ t \in Tokens
      BY HeadIs DEF HeadIn, Busy
<1>2. HeadIn(r, UsesBot) /\ HeadIn(r, Writes)
      BY DEF HeadIn, UsesBot, Writes
<1>3. r.bot \in DOMAIN heap /\ r.bot # 0
      BY <1>1, <1>2, HoldsBot
<1>4. IsChanging(r) /\ (r.created => IsMaking(r)) /\ ~ Waiting(r)
      BY <1>1, <1>2, <1>3, HeadChanges DEF IsMaking, InUse, Waiting, HeadIn
<1>5. /\ r.todo # <<>> /\ r.todo[1] \in Range(r.todo) \cap Writes
      BY <1>1, <1>2, FirstStep DEF HeadIn
<1>6. /\ Ended(r, x) /\ x.answer = "failed"
      BY <1>1, AnsweredEnds DEF Answers
<1>7. th' = [th EXCEPT ![p] = x]
      BY DEF SaveFails, Answer, Set
<1> HIDE DEF x
<1>8. /\ x \in Thread /\ InOrder(x) /\ Keeps(x) /\ ~ Waiting(x) /\ x.todo = <<>>
      /\ ~ IsMaking(x) /\ ~ IsChanging(x) /\ x.conn = 0
      BY <1>6, EndedIs
<1>9. th'[p] = x /\ \A q \in Procs \ {p} : th'[q] = th[q]
      BY <1>7 DEF Inv, TypeInv
<1>10. \/ r.created /\ bots' = [bots EXCEPT ![t] = 0] /\ unsaved' = unsaved
       \/ ~ r.created /\ bots' = bots /\ unsaved' = unsaved \cup {t}
      BY DEF SaveFails
<1>11. /\ bots \in [Tokens -> {0} \cup DOMAIN heap]
       /\ \A u \in Tokens : bots[u] # 0 => heap[bots[u]].token = u
       /\ unsaved \subseteq Tokens
       BY DEF Inv, TypeInv
<1>12. /\ bots' \in [Tokens -> {0} \cup DOMAIN heap]
       /\ \A u \in Tokens : bots'[u] # bots[u] => u = t /\ r.created /\ bots'[u] = 0
       /\ r.created => bots'[t] = 0
       /\ unsaved' \subseteq Tokens
       BY <1>1, <1>10, <1>11
<1>13. r.created /\ t \notin clash => rows[t] = None /\ bots[t] = r.bot /\ heap[r.bot].conn = 0
       BY <1>3, <1>5, <1>1 DEF Relies
<1>14. RowsInv'
  <2>1. ASSUME NEW u \in Tokens \ clash, bots'[u] = 0 PROVE rows[u] = None
    <3>1. CASE bots'[u] # bots[u]
          BY <1>12, <1>13, <2>1, <3>1
    <3>2. CASE bots'[u] = bots[u]
          BY <2>1, <3>2 DEF Inv, RowsInv, Registered
    <3>3. QED
          BY <3>1, <3>2
  <2>2. ASSUME NEW u \in Tokens \ (clash \cup unsaved') PROVE Agree(u)' \/ Pending(u)'
    <3>1. CASE u = t
      <4>1. r.created
            BY <1>10, <2>2, <3>1
      <4>2. bots'[t] = 0 /\ rows'[t] = None
            BY <1>12, <1>13, <2>2, <3>1, <4>1
      <4>3. QED
            BY <3>1, <4>2 DEF Agree, Registered
    <3>2. CASE u # t
      <4>1. bots'[u] = bots[u] /\ u \notin unsaved
            BY <1>10, <1>12, <2>2, <3>2
      <4>2. Agree(u) => Agree(u)'
            BY <4>1 DEF Agree, Registered
      <4>3. Pending(u) => Pending(u)'
            BY <1>9, <3>2, PendingStays
      <4>4. QED
            BY <2>2, <4>1, <4>2, <4>3 DEF Inv, RowsInv
    <3>3. QED
          BY <3>1, <3>2
  <2>3. QED
      BY <2>1, <2>2 DEF Inv, RowsInv, Registered
<1>15. InOrder(th[p])' /\ Keeps(th[p])'
       BY <1>8, <1>9, StillInOrder DEF sessions
<1>16. Relies(th[p])'
       BY <1>8, <1>9 DEF Relies
<1>17. Lighter(r, x)
       BY <1>8 DEF Lighter
<1>18. /\ rows' \in [Tokens -> Row \cup {None}] /\ heap' \in [DOMAIN heap' -> Object]
       /\ IsFiniteSet(DOMAIN heap') /\ DOMAIN heap' \subseteq Nat \ {0}
       /\ DOMAIN heap \subseteq DOMAIN heap' /\ DOMAIN heap' \ DOMAIN heap = {}
       /\ heap' = heap /\ rows' = rows
       BY DEF Inv, TypeInv
<1>19. \A u \in Tokens : bots'[u] # 0 => heap'[bots'[u]].token = u
       BY <1>11, <1>12
<1>20. \A u \in Tokens : bots'[u] # bots[u] =>
           /\ r.token = u /\ IsMaking(r)
           /\ u \in clash \/ bots[u] = 0 \/ heap[bots[u]].conn = 0
       BY <1>4, <1>12, <1>13
<1>21. UNCHANGED <<sessions, control, clash>>
       OBVIOUS
<1>22. QED
  <2>1. \A o \in DOMAIN heap : heap'[o].token = heap[o].token /\ heap'[o].conn = heap[o].conn
      BY <1>18
  <2>2. \A o \in DOMAIN heap' \ DOMAIN heap : heap'[o].conn = 0
      BY <1>18
  <2>3. \A u \in Tokens : rows'[u] # rows[u] =>
               th[p].token = u /\ (IsMaking(th[p]) \/ (IsChanging(th[p]) /\ rows'[u] # None))
      BY <1>18
  <2>4. QED
      BY <1>4, <1>7, <1>8, <1>12, <1>14, <1>15, <1>16, <1>17, <1>18, <1>19, <1>20, <1>21,
         <2>1, <2>2, <2>3, TableStep

LEMMA ConfigureKeepsInv ==
    ASSUME Inv, NEW p \in Procs, Busy(p), th[p].todo[1] \in {"set", "settle", "toggle"},
           th[p].bot # 0, Configure(th[p].bot, 1 - heap[th[p].bot].conf), Mark(p, th[p]),
           UNCHANGED <<rows, bots, sessions, control, history>>
    PROVE  Inv'
<1> DEFINE r == th[p]
           t == r.token
           b == r.bot
           y == [r EXCEPT !.did = TRUE]
           x == Pop(y)
<1>1. /\ r \in Thread /\ InOrder(r) /\ Relies(r) /\ t \in Tokens /\ r.todo # <<>>
      BY HeadIs DEF Busy
<1>2. b \in DOMAIN heap /\ heap[b].token = t
      BY <1>1 DEF InOrder
<1>3. /\ y \in Thread /\ y.todo = r.todo /\ y.token = r.token /\ y.bot = r.bot
      /\ y.conn = r.conn /\ y.created = r.created /\ y.ready = r.ready
      /\ y.answer = r.answer /\ y.torn = r.torn
      BY <1>1 DEF Thread
<1>4. th' = [th EXCEPT ![p] = x]
      BY DEF Mark, Set
<1> HIDE DEF y
<1>5. /\ x \in Thread /\ x.todo # <<>> /\ x.todo[1] = Follows[r.todo[1]]
      /\ x.token = t /\ x.bot = b /\ x.conn = r.conn /\ x.created = r.created
      /\ InOrder(x) /\ Keeps(x) /\ ~ Waiting(x) /\ Lighter(r, x) /\ ~ Waiting(r)
      BY <1>3, StepsOn
<1> HIDE DEF x
<1>6. x.todo[1] = "exists" /\ ~ r.created
  <2>1. x.todo[1] = "exists"
      BY <1>5, FollowsFacts
  <2>2. ~ r.created
      BY <1>1 DEF InOrder, HeadIn
  <2>3. QED
      BY <2>1, <2>2
<1>7. th'[p] = x /\ \A q \in Procs \ {p} : th'[q] = th[q]
      BY <1>4 DEF Inv, TypeInv
<1>8. heap' = [heap EXCEPT ![b] = [heap[b] EXCEPT !.conf = 1 - heap[b].conf]]
      BY DEF Configure
<1>9. /\ heap \in [DOMAIN heap -> Object] /\ IsFiniteSet(DOMAIN heap)
      /\ DOMAIN heap \subseteq Nat \ {0} /\ heap[b] \in Object
      /\ bots \in [Tokens -> {0} \cup DOMAIN heap] /\ rows \in [Tokens -> Row \cup {None}]
      /\ \A u \in Tokens : bots[u] # 0 => heap[bots[u]].token = u
      /\ unsaved \subseteq Tokens
      BY <1>2 DEF Inv, TypeInv
<1>10. 1 - heap[b].conf \in 0..1
  <2>1. heap[b].conf \in 0..1
      BY <1>9 DEF Object
  <2>2. QED
      BY <2>1
<1>11. /\ [heap[b] EXCEPT !.conf = 1 - heap[b].conf] \in Object
       /\ [heap[b] EXCEPT !.conf = 1 - heap[b].conf].token = heap[b].token
       /\ [heap[b] EXCEPT !.conf = 1 - heap[b].conf].conn = heap[b].conn
       BY <1>9, <1>10 DEF Object
<1>12. /\ DOMAIN heap' = DOMAIN heap /\ heap' \in [DOMAIN heap' -> Object]
       /\ \A o \in DOMAIN heap : o # b => heap'[o] = heap[o]
       /\ heap'[b] = [heap[b] EXCEPT !.conf = 1 - heap[b].conf]
       BY <1>2, <1>8, <1>9, <1>11
<1>13. \A o \in DOMAIN heap : heap'[o].token = heap[o].token /\ heap'[o].conn = heap[o].conn
       BY <1>11, <1>12
<1>14. UNCHANGED <<rows, bots, sessions, control, clash, unsaved>>
       BY DEF history
<1>15. RowsInv'
  <2>1. ASSUME NEW u \in Tokens \ (clash \cup unsaved) PROVE Agree(u)' \/ Pending(u)'
    <3>1. CASE u = t
          BY <1>5, <1>6, <1>7, <3>1 DEF Pending, HeadIn
    <3>2. CASE u # t
      <4>1. bots[u] # b
            BY <1>2, <1>9, <3>2
      <4>2. Agree(u) => Agree(u)'
            BY <1>9, <1>12, <1>14, <4>1 DEF Agree, Registered
      <4>3. Pending(u) => Pending(u)'
            BY <1>7, <3>2, PendingStays
      <4>4. QED
            BY <4>2, <4>3 DEF Inv, RowsInv
    <3>3. QED
          BY <3>1, <3>2
  <2>2. QED
      BY <1>14, <2>1 DEF Inv, RowsInv, Registered
<1>16. InOrder(th[p])' /\ Keeps(th[p])'
       BY <1>5, <1>7, <1>12, <1>13, StillInOrder DEF sessions
<1>17. Relies(th[p])'
  <2>1. ~ HeadIn(x, {"settle", "clear", "delete", "forget", "write"}) /\ ~ x.created
      BY <1>5, <1>6 DEF HeadIn
  <2>2. r.todo[1] \in Range(r.todo) \cap Writes
      BY <1>1, FirstStep DEF Writes, MakesOrDeletes
  <2>3. t \notin clash => bots[t] = b
      BY <1>1, <2>2 DEF Relies
  <2>4. QED
      BY <1>5, <1>7, <1>14, <2>1, <2>3 DEF Relies, HeadIn
<1>18. \A o \in DOMAIN heap' \ DOMAIN heap : heap'[o].conn = 0
       BY <1>12
<1>19. \A u \in Tokens : bots'[u] # 0 => heap'[bots'[u]].token = u
       BY <1>9, <1>13, <1>14
<1>20. QED
       BY <1>4, <1>5, <1>9, <1>12, <1>13, <1>14, <1>15, <1>16, <1>17, <1>18, <1>19, TableStep

LEMMA UpdateKeepsInv ==
    ASSUME Inv, NEW p \in Procs, Update(p) \/ Toggle(p)
    PROVE  Inv'
<1> DEFINE r == th[p]
<1>1. Busy(p)
      BY DEF Update, Toggle, At
<1>2. /\ r \in Thread /\ InOrder(r) /\ Head(r.todo) = r.todo[1]
      /\ \A S : HeadIn(r, S) <=> Head(r.todo) \in S
      /\ \A step : At(p, step) <=> Head(r.todo) = step
      BY <1>1, HeadIs
<1>3. /\ r.todo[1] \in {"set", "settle", "toggle"}
      /\ r.todo[1] = "settle" => r.bot # 0
      BY <1>2 DEF Update, Toggle
<1>4. r.bot # 0
  <2>1. CASE r.todo[1] = "settle"
      BY <1>3, <2>1
  <2>2. CASE HeadIn(r, UsesBot)
      BY <1>2, <2>2, HoldsBot
  <2>3. QED
      BY <1>2, <1>3, <2>1, <2>2 DEF UsesBot
<1>5. CASE Configure(r.bot, 1 - heap[r.bot].conf) /\ Mark(p, r)
  <2>1. UNCHANGED <<rows, bots, sessions, control, history>>
      BY DEF Update, Toggle
  <2>2. QED
      BY <1>1, <1>3, <1>4, <1>5, <2>1, ConfigureKeepsInv
<1>6. ASSUME NEW a \in {"done", "refused"}, Answer(p, a), UNCHANGED heap, Update(p) PROVE Inv'
  <2>1. UNCHANGED requests
      BY <1>6 DEF Update, requests, sessions, control, history
  <2>2. ~ HeadIn(r, {"pair", "exists", "write", "forget"})
      BY <1>2, <1>3
  <2>3. a \in Answers /\ a # "panic"
      BY <1>6 DEF Answers
  <2>4. QED
      BY <1>6, <2>1, <2>2, <2>3, IsAnswered
<1>7. QED
  <2>1. CASE Toggle(p)
      BY <1>5, <2>1 DEF Toggle
  <2>2. CASE Update(p)
      BY <1>5, <1>6, <2>2 DEF Update
  <2>3. QED
      BY <2>1, <2>2

LEMMA ExistsKeepsInv ==
    ASSUME Inv, NEW p \in Procs, Exists(p)
    PROVE  Inv'
<1> DEFINE r == th[p]
           t == r.token
           b == r.bot
           y == [r EXCEPT !.found = (rows[t] # None)]
           x == Pop(y)
<1>1. Busy(p)
      BY DEF Exists, At
<1>2. /\ r \in Thread /\ InOrder(r) /\ Relies(r) /\ t \in Tokens /\ r.todo # <<>>
      /\ r.todo[1] = "exists" /\ HeadIn(r, {"exists", "write"}) /\ HeadIn(r, UsesBot)
      BY <1>1, HeadIs, ZenonT(60) DEF Exists, Busy, UsesBot
<1>3. b \in DOMAIN heap /\ heap[b].token = t /\ b # 0
      BY <1>2, HoldsBot
<1>4. UNCHANGED <<rows, heap, sessions, control, clash>>
      BY DEF Exists
<1>5. CASE SaveFails(p)
      BY <1>2, <1>4, <1>5, SaveFailsKeepsInv
<1>6. CASE Set(p, x) /\ UNCHANGED <<bots, unsaved>>
  <2>1. /\ y \in Thread /\ y.todo = r.todo /\ y.token = r.token /\ y.bot = r.bot
        /\ y.conn = r.conn /\ y.created = r.created /\ y.ready = r.ready
        /\ y.answer = r.answer /\ y.torn = r.torn
      BY <1>2 DEF Thread
  <2>2. y.found = (rows[t] # None)
      BY <1>2 DEF Thread
  <2>3. th' = [th EXCEPT ![p] = x]
      BY <1>6 DEF Set
  <2> HIDE DEF y
  <2>4. /\ x \in Thread /\ x.todo # <<>> /\ x.todo[1] = Follows[r.todo[1]]
        /\ x.token = t /\ x.bot = b /\ x.conn = r.conn /\ x.created = r.created /\ x.found = y.found
        /\ InOrder(x) /\ Keeps(x) /\ ~ Waiting(x) /\ Lighter(r, x) /\ ~ Waiting(r)
      BY <1>1, <1>2, <1>3, <2>1, StepsOn
  <2> HIDE DEF x
  <2>5. x.todo[1] = "write"
      BY <1>2, <2>4, FollowsFacts
  <2>6. th'[p] = x /\ \A q \in Procs \ {p} : th'[q] = th[q]
      BY <2>3 DEF Inv, TypeInv
  <2>7. UNCHANGED <<rows, bots, heap, sessions, control, clash, unsaved>>
      BY <1>4, <1>6
  <2>8. RowsInv'
    <3>1. ASSUME NEW u \in Tokens, Pending(u) PROVE Pending(u)'
      <4>1. CASE u = t
            BY <2>4, <2>5, <2>6, <4>1 DEF Pending, HeadIn
      <4>2. CASE u # t
            BY <2>6, <3>1, <4>2, PendingStays
      <4>3. QED
            BY <4>1, <4>2
    <3>2. \A u \in Tokens : Agree(u) => Agree(u)'
          BY <2>7 DEF Agree, Registered
    <3>3. QED
          BY <2>7, <3>1, <3>2 DEF Inv, RowsInv, Registered
  <2>9. InOrder(th[p])' /\ Keeps(th[p])'
      BY <2>4, <2>6, <2>7, StillInOrder DEF sessions
  <2>10. Relies(th[p])'
    <3>1. r.todo[1] \in Range(r.todo) \cap Writes
          BY <1>2, FirstStep DEF Writes
    <3>2. ~ HeadIn(x, {"settle", "clear", "delete", "forget"})
          BY <2>5 DEF HeadIn
    <3>3. t \notin clash =>
              /\ bots[t] = b
              /\ r.created => heap[b].conn = 0 /\ rows[t] = None
          BY <1>2, <1>3, <3>1 DEF Relies
    <3>4. QED
          BY <2>2, <2>4, <2>6, <2>7, <3>2, <3>3 DEF Relies, HeadIn
  <2>11. /\ rows' \in [Tokens -> Row \cup {None}] /\ heap' \in [DOMAIN heap' -> Object]
         /\ IsFiniteSet(DOMAIN heap') /\ DOMAIN heap' \subseteq Nat \ {0}
         /\ DOMAIN heap \subseteq DOMAIN heap' /\ DOMAIN heap' \ DOMAIN heap = {}
         /\ bots' \in [Tokens -> {0} \cup DOMAIN heap'] /\ unsaved' \subseteq Tokens
         /\ \A u \in Tokens : bots'[u] # 0 => heap'[bots'[u]].token = u
      BY <2>7 DEF Inv, TypeInv
  <2>12. QED
      BY <2>3, <2>4, <2>7, <2>8, <2>9, <2>10, <2>11, TableStep
<1>7. QED
      BY <1>5, <1>6 DEF Exists

LEMMA WriteKeepsInv ==
    ASSUME Inv, NEW p \in Procs, Write(p)
    PROVE  Inv'
<1> DEFINE r == th[p]
           t == r.token
           b == r.bot
           row == [wid |-> heap[b].wid, conf |-> heap[b].conf]
           y == [r EXCEPT !.did = TRUE]
           x == Pop(y)
<1>1. Busy(p)
      BY DEF Write, At
<1>2. /\ r \in Thread /\ InOrder(r) /\ Relies(r) /\ t \in Tokens /\ r.todo # <<>>
      /\ r.todo[1] = "write" /\ HeadIn(r, {"exists", "write"}) /\ HeadIn(r, UsesBot)
      /\ HeadIn(r, {"write"}) /\ HeadIn(r, Writes)
  <2>1. At(p, "write") /\ r.todo # <<>>
      BY <1>1 DEF Write, Busy
  <2>2. /\ r \in Thread /\ InOrder(r) /\ Relies(r) /\ t \in Tokens
        /\ Head(r.todo) = "write" /\ r.todo[1] = "write"
        /\ \A S : HeadIn(r, S) <=> Head(r.todo) \in S
      BY <1>1, <2>1, HeadIs
  <2>3. "write" \in UsesBot /\ "write" \in Writes
      BY DEF UsesBot, Writes
  <2>4. QED
      BY <2>1, <2>2, <2>3
<1>3. b \in DOMAIN heap /\ heap[b].token = t /\ b # 0
      BY <1>2, HoldsBot
<1>4. UNCHANGED <<heap, sessions, control, clash>>
      BY DEF Write
<1>5. CASE SaveFails(p) /\ UNCHANGED rows
      BY <1>2, <1>4, <1>5, SaveFailsKeepsInv
<1>6. CASE /\ ~ Taken(t, heap[b].wid)
           /\ r.found \/ rows[t] = None
           /\ rows' = IF r.found /\ rows[t] = None THEN rows ELSE [rows EXCEPT ![t] = row]
           /\ unsaved' = IF bots[t] = b THEN unsaved \ {t} ELSE unsaved
           /\ Mark(p, r) /\ UNCHANGED bots
  <2>1. y \in Thread /\ y.todo = r.todo
      BY <1>2 DEF Thread
  <2>2. th' = [th EXCEPT ![p] = x]
      BY <1>6 DEF Mark, Set
  <2> HIDE DEF y
  <2>3. Ended(y, x) /\ x.answer = "done"
      BY <1>2, <2>1, FollowsOn DEF InOrder, Orderly
  <2> HIDE DEF x
  <2>4. /\ x \in Thread /\ InOrder(x) /\ Keeps(x) /\ ~ Waiting(x) /\ x.todo = <<>>
        /\ ~ IsMaking(x) /\ ~ IsChanging(x) /\ x.conn = 0
      BY <2>3, EndedIs
  <2>5. th'[p] = x /\ \A q \in Procs \ {p} : th'[q] = th[q]
      BY <2>2 DEF Inv, TypeInv
  <2>6. UNCHANGED <<bots, heap, sessions, control, clash>> /\ unsaved' \subseteq unsaved
      BY <1>4, <1>6
  <2>7. /\ rows \in [Tokens -> Row \cup {None}] /\ heap \in [DOMAIN heap -> Object]
        /\ IsFiniteSet(DOMAIN heap) /\ DOMAIN heap \subseteq Nat \ {0}
        /\ bots \in [Tokens -> {0} \cup DOMAIN heap] /\ unsaved \subseteq Tokens
        /\ \A u \in Tokens : bots[u] # 0 => heap[bots[u]].token = u
      BY DEF Inv, TypeInv
  <2>8. row \in Row /\ row # None /\ row.wid = heap[b].wid
    <3>1. heap[b] \in Object
          BY <1>3, <2>7
    <3>2. row \in Row /\ row.wid = heap[b].wid
          BY <3>1 DEF Object, Row
    <3>3. QED
          BY <3>2, ControlAssumption DEF Row
  <2> HIDE DEF row
  <2>9. /\ rows' \in [Tokens -> Row \cup {None}]
        /\ \A u \in Tokens : u # t => rows'[u] = rows[u]
        /\ rows' = rows \/ rows'[t] = row
        /\ ~ (r.found /\ rows[t] = None) => rows'[t] = row
      BY <1>2, <1>6, <2>7, <2>8
  <2>10. r.todo[1] \in Range(r.todo) \cap Writes
      BY <1>2, FirstStep DEF HeadIn
  <2>11. t \notin clash => /\ bots[t] = b
                           /\ r.found => rows[t] # None
      BY <1>2, <1>3, <2>10 DEF Relies
  <2>12. RowsInv'
    <3>1. ASSUME NEW u \in Tokens, NEW v \in Tokens, rows'[u] # None, rows'[v] # None,
                 rows'[u].wid = rows'[v].wid, u # v
          PROVE  FALSE
      <4>1. CASE rows' = rows
            BY <3>1, <4>1 DEF Inv, RowsInv
      <4>2. CASE rows'[t] = row
        <5>1. \A w \in Tokens : w # t /\ rows[w] # None => rows[w].wid # row.wid
              BY <1>6, <2>8 DEF Taken
        <5>2. u # t /\ v # t => rows'[u] = rows[u] /\ rows'[v] = rows[v]
              BY <2>9
        <5>3. CASE u # t /\ v # t
              BY <3>1, <5>2, <5>3 DEF Inv, RowsInv
        <5>4. CASE u = t
              BY <2>9, <3>1, <4>2, <5>1, <5>4
        <5>5. CASE v = t
              BY <2>9, <3>1, <4>2, <5>1, <5>5
        <5>6. QED
              BY <5>3, <5>4, <5>5
      <4>3. QED
            BY <2>9, <4>1, <4>2
    <3>2. ASSUME NEW u \in Tokens \ clash, bots[u] = 0 PROVE rows'[u] = None
      <4>1. u # t
            BY <1>3, <2>11, <3>2
      <4>2. rows[u] = None
            BY <3>2 DEF Inv, RowsInv, Registered
      <4>3. QED
            BY <2>9, <4>1, <4>2
    <3>3. ASSUME NEW u \in Tokens \ (clash \cup unsaved') PROVE Agree(u)' \/ Pending(u)'
      <4>1. CASE u = t
        <5>1. rows'[t] = row /\ bots[t] = b
              BY <2>9, <2>11, <3>3, <4>1
        <5>2. QED
              BY <1>3, <2>6, <4>1, <5>1 DEF Agree, Registered, row
      <4>2. CASE u # t
        <5>1. u \notin unsaved
              BY <1>6, <3>3, <4>2
        <5>2. Agree(u) => Agree(u)'
              BY <2>6, <2>9, <4>2 DEF Agree, Registered
        <5>3. Pending(u) => Pending(u)'
              BY <2>5, <4>2, PendingStays
        <5>4. QED
              BY <3>3, <5>1, <5>2, <5>3 DEF Inv, RowsInv
      <4>3. QED
            BY <4>1, <4>2
    <3>4. QED
          BY <2>6, <3>1, <3>2, <3>3 DEF RowsInv, Registered
  <2>13. InOrder(th[p])' /\ Keeps(th[p])'
      BY <2>4, <2>5, <2>6, StillInOrder DEF sessions
  <2>14. Relies(th[p])'
      BY <2>4, <2>5 DEF Relies
  <2>15. Lighter(r, x) /\ ~ Waiting(r) /\ IsChanging(r)
      BY <1>2, <2>4, HeadChanges DEF Lighter, Waiting, HeadIn
  <2>16. /\ heap' \in [DOMAIN heap' -> Object]
         /\ IsFiniteSet(DOMAIN heap') /\ DOMAIN heap' \subseteq Nat \ {0}
         /\ DOMAIN heap \subseteq DOMAIN heap' /\ DOMAIN heap' \ DOMAIN heap = {}
         /\ bots' \in [Tokens -> {0} \cup DOMAIN heap'] /\ unsaved' \subseteq Tokens
         /\ \A u \in Tokens : bots'[u] # 0 => heap'[bots'[u]].token = u
      BY <2>6, <2>7
  <2>17. \A u \in Tokens : rows'[u] # rows[u] =>
               r.token = u /\ (IsMaking(r) \/ (IsChanging(r) /\ rows'[u] # None))
      BY <2>8, <2>9, <2>15
  <2>18. QED
      BY <2>2, <2>4, <2>6, <2>9, <2>12, <2>13, <2>14, <2>15, <2>16, <2>17, TableStep
<1>7. QED
      BY <1>5, <1>6 DEF Write

LEMMA DeleteRowKeepsInv ==
    ASSUME Inv, NEW p \in Procs, DeleteRow(p)
    PROVE  Inv'
<1> DEFINE r == th[p]
           t == r.token
           b == r.bot
           x == Pop(r)
<1>1. Busy(p)
      BY DEF DeleteRow, At
<1>2. /\ r \in Thread /\ InOrder(r) /\ Relies(r) /\ t \in Tokens /\ r.todo # <<>>
      /\ r.todo[1] = "delete" /\ HeadIn(r, UsesBot) /\ HeadIn(r, {"delete"})
      /\ ~ HeadIn(r, {"pair", "exists", "write", "forget"})
      /\ HeadIn(r, {"settle", "pair", "logout", "clear", "delete", "forget"})
      BY <1>1, HeadIs DEF DeleteRow, Busy, UsesBot
<1>3. b \in DOMAIN heap /\ heap[b].token = t /\ b # 0
      BY <1>2, HoldsBot
<1>4. UNCHANGED <<bots, heap, sessions, control, clash, unsaved>>
      BY DEF DeleteRow, history
<1>5. CASE Answer(p, "failed") /\ UNCHANGED rows
  <2>1. UNCHANGED requests
      BY <1>4, <1>5 DEF requests, sessions, control
  <2>2. QED
      BY <1>2, <1>5, <2>1, IsAnswered DEF Answers
<1>6. CASE rows' = [rows EXCEPT ![t] = None] /\ Next1(p)
  <2>1. th' = [th EXCEPT ![p] = x]
      BY <1>6 DEF Next1, Set
  <2>2. /\ x \in Thread /\ x.todo # <<>> /\ x.todo[1] = Follows[r.todo[1]]
        /\ x.token = t /\ x.bot = b /\ x.conn = r.conn /\ x.created = r.created
        /\ InOrder(x) /\ Keeps(x) /\ ~ Waiting(x) /\ Lighter(r, x) /\ ~ Waiting(r)
      BY <1>1, <1>2, <1>3, StepsOn
  <2> HIDE DEF x
  <2>3. x.todo[1] = "forget" /\ ~ x.created
      BY <1>2, <2>2, FollowsFacts DEF InOrder, HeadIn
  <2>4. th'[p] = x /\ \A q \in Procs \ {p} : th'[q] = th[q]
      BY <2>1 DEF Inv, TypeInv
  <2>5. /\ rows \in [Tokens -> Row \cup {None}] /\ heap' \in [DOMAIN heap' -> Object]
        /\ IsFiniteSet(DOMAIN heap') /\ DOMAIN heap' \subseteq Nat \ {0}
        /\ DOMAIN heap \subseteq DOMAIN heap' /\ DOMAIN heap' \ DOMAIN heap = {}
        /\ bots' \in [Tokens -> {0} \cup DOMAIN heap'] /\ unsaved' \subseteq Tokens
        /\ \A u \in Tokens : bots'[u] # 0 => heap'[bots'[u]].token = u
      BY <1>4 DEF Inv, TypeInv
  <2>6. /\ rows' \in [Tokens -> Row \cup {None}] /\ rows'[t] = None
        /\ \A u \in Tokens : u # t => rows'[u] = rows[u]
      BY <1>2, <1>6, <2>5
  <2>7. RowsInv'
    <3>1. \A u, v \in Tokens : rows'[u] # None /\ rows'[v] # None /\ rows'[u].wid = rows'[v].wid => u = v
          BY <2>6 DEF Inv, RowsInv
    <3>2. \A u \in Tokens \ clash : bots[u] = 0 => rows'[u] = None
          BY <2>6 DEF Inv, RowsInv, Registered
    <3>3. ASSUME NEW u \in Tokens \ (clash \cup unsaved) PROVE Agree(u)' \/ Pending(u)'
      <4>1. CASE u = t
            BY <2>2, <2>3, <2>4, <4>1 DEF Pending, HeadIn
      <4>2. CASE u # t
        <5>1. Agree(u) => Agree(u)'
              BY <1>4, <2>6, <4>2 DEF Agree, Registered
        <5>2. Pending(u) => Pending(u)'
              BY <2>4, <4>2, PendingStays
        <5>3. QED
              BY <5>1, <5>2 DEF Inv, RowsInv
      <4>3. QED
            BY <4>1, <4>2
    <3>4. QED
          BY <1>4, <3>1, <3>2, <3>3 DEF RowsInv, Registered
  <2>8. InOrder(th[p])' /\ Keeps(th[p])'
      BY <1>4, <2>2, <2>4, StillInOrder DEF sessions
  <2>9. Relies(th[p])'
    <3>1. r.todo[1] \in Range(r.todo) \cap Writes
          BY <1>2, FirstStep DEF Writes, MakesOrDeletes
    <3>2. ~ HeadIn(x, {"settle", "write"})
          BY <2>3 DEF HeadIn
    <3>3. HeadIn(r, {"clear", "delete", "forget"})
          BY <1>2 DEF HeadIn
    <3>4. t \notin clash => bots[t] = b /\ heap[b].conn = 0
          BY <1>2, <1>3, <3>1, <3>3 DEF Relies
    <3>5. QED
          BY <1>4, <2>2, <2>3, <2>4, <2>6, <3>2, <3>4 DEF Relies, HeadIn
  <2>10. IsMaking(r)
      BY <1>2, HeadMakes
  <2>11. \A u \in Tokens : rows'[u] # rows[u] =>
               r.token = u /\ (IsMaking(r) \/ (IsChanging(r) /\ rows'[u] # None))
      BY <2>6, <2>10
  <2>12. QED
      BY <1>4, <2>1, <2>2, <2>5, <2>6, <2>7, <2>8, <2>9, <2>11, TableStep
<1>7. QED
      BY <1>5, <1>6 DEF DeleteRow

LEMMA ForgetKeepsInv ==
    ASSUME Inv, NEW p \in Procs, Forget(p)
    PROVE  Inv'
<1> DEFINE r == th[p]
           t == r.token
           b == r.bot
           x == Pop(r)
<1>1. Busy(p)
      BY DEF Forget, At
<1>2. /\ r \in Thread /\ InOrder(r) /\ Relies(r) /\ t \in Tokens /\ r.todo # <<>>
      /\ r.todo[1] = "forget" /\ HeadIn(r, UsesBot) /\ HeadIn(r, {"forget"})
      /\ HeadIn(r, {"clear", "delete", "forget"})
      /\ HeadIn(r, {"settle", "pair", "logout", "clear", "delete", "forget"})
      BY <1>1, HeadIs, ZenonT(60) DEF Forget, Busy, UsesBot
<1>3. b \in DOMAIN heap /\ heap[b].token = t /\ b # 0
      BY <1>2, HoldsBot
<1>4. /\ UNCHANGED <<rows, heap, sessions, control, clash>>
      /\ bots' = [bots EXCEPT ![t] = 0] /\ unsaved' = unsaved \ {t}
      BY DEF Forget
<1>5. th' = [th EXCEPT ![p] = x]
      BY DEF Forget, Next1, Set
<1>6. Ended(r, x) /\ x.answer = "done"
      BY <1>2, FollowsOn DEF InOrder, Orderly
<1> HIDE DEF x
<1>7. /\ x \in Thread /\ InOrder(x) /\ Keeps(x) /\ ~ Waiting(x) /\ x.todo = <<>>
      /\ ~ IsMaking(x) /\ ~ IsChanging(x) /\ x.conn = 0
      BY <1>6, EndedIs
<1>8. th'[p] = x /\ \A q \in Procs \ {p} : th'[q] = th[q]
      BY <1>5 DEF Inv, TypeInv
<1>9. /\ rows' \in [Tokens -> Row \cup {None}] /\ heap' \in [DOMAIN heap' -> Object]
      /\ IsFiniteSet(DOMAIN heap') /\ DOMAIN heap' \subseteq Nat \ {0}
      /\ DOMAIN heap \subseteq DOMAIN heap' /\ DOMAIN heap' \ DOMAIN heap = {}
      /\ bots \in [Tokens -> {0} \cup DOMAIN heap] /\ unsaved' \subseteq Tokens
      /\ \A u \in Tokens : bots[u] # 0 => heap[bots[u]].token = u
      BY <1>4 DEF Inv, TypeInv
<1>10. /\ bots' \in [Tokens -> {0} \cup DOMAIN heap'] /\ bots'[t] = 0
       /\ \A u \in Tokens : u # t => bots'[u] = bots[u]
       BY <1>2, <1>4, <1>9
<1>11. r.todo[1] \in Range(r.todo) \cap Writes
       BY <1>2, FirstStep DEF Writes, MakesOrDeletes
<1>12. t \notin clash => bots[t] = b /\ heap[b].conn = 0 /\ rows[t] = None
       BY <1>2, <1>3, <1>11 DEF Relies
<1>13. RowsInv'
  <2>1. ASSUME NEW u \in Tokens \ clash, bots'[u] = 0 PROVE rows[u] = None
      BY <1>10, <1>12, <2>1 DEF Inv, RowsInv, Registered
  <2>2. ASSUME NEW u \in Tokens \ (clash \cup unsaved') PROVE Agree(u)' \/ Pending(u)'
    <3>1. CASE u = t
      <4>1. bots'[u] = 0 /\ rows'[u] = None
            BY <1>4, <1>10, <1>12, <2>2, <3>1
      <4>2. QED
            BY <4>1 DEF Agree, Registered
    <3>2. CASE u # t
      <4>1. u \notin unsaved /\ bots'[u] = bots[u]
            BY <1>4, <1>10, <2>2, <3>2
      <4>2. Agree(u) => Agree(u)'
            BY <1>4, <4>1 DEF Agree, Registered
      <4>3. Pending(u) => Pending(u)'
            BY <1>8, <3>2, PendingStays
      <4>4. QED
            BY <2>2, <4>1, <4>2, <4>3 DEF Inv, RowsInv
    <3>3. QED
          BY <3>1, <3>2
  <2>3. QED
      BY <1>4, <2>1, <2>2 DEF Inv, RowsInv, Registered
<1>14. InOrder(th[p])' /\ Keeps(th[p])'
       BY <1>4, <1>7, <1>8, StillInOrder DEF sessions
<1>15. Relies(th[p])'
       BY <1>7, <1>8 DEF Relies
<1>16. Lighter(r, x) /\ ~ Waiting(r) /\ IsMaking(r)
       BY <1>2, <1>7, HeadMakes DEF Lighter, Waiting, HeadIn
<1>17. \A u \in Tokens : bots'[u] # bots[u] =>
           /\ r.token = u /\ IsMaking(r)
           /\ u \in clash \/ bots[u] = 0 \/ heap[bots[u]].conn = 0
       BY <1>10, <1>12, <1>16
<1>18. \A u \in Tokens : bots'[u] # 0 => heap'[bots'[u]].token = u
       BY <1>4, <1>9, <1>10
<1>19. QED
       BY <1>4, <1>5, <1>7, <1>9, <1>10, <1>13, <1>14, <1>15, <1>16, <1>17, <1>18, TableStep

\* There are n numbers from 1 to n.
LEMMA UpTo ==
    ASSUME NEW n \in Nat
    PROVE  IsFiniteSet(1..n) /\ Cardinality(1..n) = n
<1>1. 1 \in Int /\ n \in Int
      OBVIOUS
<1>2. IsFiniteSet(1..n) /\ Cardinality(1..n) = IF 1 > n THEN 0 ELSE n - 1 + 1
      BY <1>1, FS_Interval, Zenon
<1>3. QED
      BY <1>2

LEMMA FreshIsNew ==
    ASSUME IsFiniteSet(DOMAIN heap)
    PROVE  Fresh \in Nat \ {0} /\ Fresh \notin DOMAIN heap
<1> DEFINE n == Cardinality(DOMAIN heap)
<1>1. n \in Nat
      BY FS_CardinalityType
<1>2. IsFiniteSet(1..(n + 1)) /\ Cardinality(1..(n + 1)) = n + 1
  <2>1. n + 1 \in Nat
      BY <1>1
  <2>2. QED
      BY <2>1, UpTo
<1>3. ~ (1..(n + 1) \subseteq DOMAIN heap)
  <2>1. 1..(n + 1) \subseteq DOMAIN heap => n + 1 <= n
      BY <1>2, FS_Subset
  <2>2. QED
      BY <1>1, <2>1
<1>4. Fresh \in 1..(n + 1) /\ Fresh \notin DOMAIN heap
      BY <1>3 DEF Fresh
<1>5. QED
      BY <1>1, <1>4

LEMMA CreateKeepsInv ==
    ASSUME Inv, NEW p \in Procs, Create(p)
    PROVE  Inv'
<1> DEFINE r == th[p]
           t == r.token
           o == Fresh
           info(c) == [token |-> t, wid |-> 0, conf |-> 0, conn |-> c]
           b == IF Registered(t) THEN bots[t] ELSE o
           y == [[r EXCEPT !.bot = b, !.created = TRUE] EXCEPT !.did = TRUE]
           x == Pop(y)
<1>1. Busy(p) /\ At(p, "settle") /\ r.bot = 0
  <2>1. At(p, "settle") /\ r.bot = 0
      BY DEF Create
  <2>2. QED
      BY <2>1 DEF At
<1>2. /\ r \in Thread /\ InOrder(r) /\ Relies(r) /\ t \in Tokens /\ r.todo # <<>>
      /\ r.todo[1] = "settle" /\ HeadIn(r, {"settle"}) /\ r.bot = 0
      /\ HeadIn(r, {"settle", "pair", "logout", "clear", "delete", "forget"})
      BY <1>1, HeadIs DEF Busy
<1>3. /\ rows \in [Tokens -> Row \cup {None}] /\ heap \in [DOMAIN heap -> Object]
      /\ IsFiniteSet(DOMAIN heap) /\ DOMAIN heap \subseteq Nat \ {0}
      /\ bots \in [Tokens -> {0} \cup DOMAIN heap] /\ unsaved \subseteq Tokens
      /\ \A u \in Tokens : bots[u] # 0 => heap[bots[u]].token = u
      BY DEF Inv, TypeInv
<1>4. o \in Nat \ {0} /\ o \notin DOMAIN heap
      BY <1>3, FreshIsNew
<1>5. /\ Registered(t) <=> bots[t] # 0
      /\ IF Registered(t)
         THEN heap' = [heap EXCEPT ![b] = info(heap[b].conn)] /\ bots' = bots
         ELSE /\ heap' = [u \in DOMAIN heap \cup {o} |-> IF u = o THEN info(0) ELSE heap[u]]
              /\ bots' = [bots EXCEPT ![t] = o]
      /\ th' = [th EXCEPT ![p] = x]
      /\ UNCHANGED <<rows, sessions, control, clash, unsaved>>
  <2>1. Registered(t) <=> bots[t] # 0
      BY DEF Registered
  <2>2. IF Registered(t)
        THEN heap' = [heap EXCEPT ![b] = info(heap[b].conn)] /\ bots' = bots
        ELSE /\ heap' = [u \in DOMAIN heap \cup {o} |-> IF u = o THEN info(0) ELSE heap[u]]
             /\ bots' = [bots EXCEPT ![t] = o]
      BY DEF Create
  <2>3. th' = [th EXCEPT ![p] = x]
      BY DEF Create, Mark, Set
  <2>4. UNCHANGED <<rows, sessions, control, clash, unsaved>>
      BY DEF Create, history
  <2>5. QED
      BY <2>1, <2>2, <2>3, <2>4
<1> HIDE DEF o
<1>6. /\ b \in Nat \ {0} /\ (bots[t] # 0 => b = bots[t] /\ b \in DOMAIN heap /\ heap[b].token = t)
      /\ (bots[t] = 0 => b = o)
  <2>1. CASE bots[t] = 0
      BY <1>4, <1>5, <2>1
  <2>2. CASE bots[t] # 0
      BY <1>2, <1>3, <1>5, <2>2
  <2>3. QED
      BY <2>1, <2>2
<1>7. \A c \in Nat : /\ info(c) \in Object
                     /\ info(c).token = t /\ info(c).conn = c
      BY <1>2 DEF Object
<1>8. bots[t] # 0 => t \in clash
  <2>1. r.todo[1] \in Range(r.todo) \cap Writes
      BY <1>2, FirstStep DEF Writes, MakesOrDeletes
  <2>2. QED
      BY <1>2, <2>1 DEF Relies
<1>9. /\ heap' \in [DOMAIN heap' -> Object] /\ DOMAIN heap' = DOMAIN heap \cup {b}
      /\ \A u \in DOMAIN heap : u # b => heap'[u] = heap[u]
      /\ heap'[b].token = t /\ heap'[b].conn = (IF bots[t] = 0 THEN 0 ELSE heap[b].conn)
      /\ bots' \in [Tokens -> {0} \cup DOMAIN heap'] /\ bots'[t] = b
      /\ \A u \in Tokens : u # t => bots'[u] = bots[u]
      /\ bots[t] # 0 => bots' = bots
  <2>1. CASE bots[t] = 0
    <3>1. /\ heap' = [u \in DOMAIN heap \cup {o} |-> IF u = o THEN info(0) ELSE heap[u]]
          /\ bots' = [bots EXCEPT ![t] = o] /\ b = o
          BY <1>5, <1>6, <2>1
    <3>2. info(0) \in Object /\ info(0).token = t /\ info(0).conn = 0
          BY <1>7
    <3> HIDE DEF b, info
    <3>3. /\ DOMAIN heap' = DOMAIN heap \cup {o} /\ heap'[o] = info(0)
          /\ \A u \in DOMAIN heap : heap'[u] = heap[u]
          BY <1>4, <3>1
    <3>4. heap' \in [DOMAIN heap' -> Object]
          BY <1>3, <3>1, <3>2
    <3>5. /\ bots' \in [Tokens -> {0} \cup DOMAIN heap'] /\ bots'[t] = o
          /\ \A u \in Tokens : u # t => bots'[u] = bots[u]
          BY <1>2, <1>3, <3>1, <3>3
    <3>6. QED
          BY <2>1, <3>1, <3>2, <3>3, <3>4, <3>5
  <2>2. CASE bots[t] # 0
    <3>1. /\ heap' = [heap EXCEPT ![b] = info(heap[b].conn)] /\ bots' = bots
          /\ b = bots[t] /\ b \in DOMAIN heap
          BY <1>5, <1>6, <2>2
    <3>2. heap[b].conn \in Nat
          BY <1>3, <3>1 DEF Object
    <3>3. /\ info(heap[b].conn) \in Object /\ info(heap[b].conn).token = t
          /\ info(heap[b].conn).conn = heap[b].conn
          BY <1>7, <3>2
    <3> HIDE DEF b, info
    <3>4. QED
          BY <1>3, <2>2, <3>1, <3>3
  <2>3. QED
      BY <2>1, <2>2
<1>10. ~ r.ready /\ r.conn = 0
  <2>1. r.todo[1] \in Range(r.todo) /\ r.todo[1] \in Rebinds
      BY <1>2, FirstStep DEF Rebinds
  <2>2. ~ r.ready /\ ~ (r.conn # 0)
      BY <1>2, <2>1 DEF InOrder
  <2>3. QED
      BY <2>2
<1> HIDE DEF b, info
<1>11. /\ y \in Thread /\ y.todo = r.todo /\ y.token = t /\ y.bot = b /\ y.conn = 0
       /\ y.created = TRUE /\ y.ready = FALSE /\ y.answer = r.answer /\ y.torn = r.torn
       BY <1>2, <1>6, <1>10 DEF Thread
<1> HIDE DEF y
<1>12. /\ Moved(y, 1, x) /\ x = [y EXCEPT !.todo = Rest(y.todo, 1)] /\ x.todo[1] = "exists"
       BY <1>2, <1>11, FollowsOn, FollowsFacts DEF InOrder, Orderly
<1>13. /\ x \in Thread /\ Moved(r, 1, x) /\ x.token = t /\ x.bot = b /\ x.conn = 0
       /\ x.created /\ ~ x.ready /\ x.todo # <<>>
       BY <1>11, <1>12 DEF Moved, Thread
<1> HIDE DEF x
<1>14. th'[p] = x /\ \A q \in Procs \ {p} : th'[q] = th[q]
       BY <1>5 DEF Inv, TypeInv
<1>15. InOrder(th[p])'
  <2>1. \A i \in 1..1 : r.todo[i] \notin Takes
      BY <1>2 DEF Takes
  <2>2. /\ Orderly(x.todo) /\ Preceded(x.todo, UsesConn, Takes)
        /\ \A i \in DOMAIN x.todo : x.todo[i] # "pair"
        /\ x.answer = "none"
      BY <1>2, <1>6, <1>10, <1>13, <2>1, MovedOrder
  <2>3. HeadIn(x, {"exists", "write"})
      BY <1>12, <1>13 DEF HeadIn
  <2>4. QED
      BY <1>2, <1>6, <1>9, <1>13, <1>14, <2>2, <2>3 DEF InOrder, HeadIn
<1>16. Keeps(th[p])'
       BY <1>13, <1>14 DEF Keeps
<1>17. Relies(th[p])'
  <2>1. t \notin clash => rows[t] = None /\ bots[t] = 0 /\ heap'[b].conn = 0
    <3>1. t \notin clash => rows[t] = None
          BY <1>2, <1>8 DEF Inv, RowsInv, Registered
    <3>2. QED
          BY <1>8, <1>9, <3>1
  <2>2. ~ HeadIn(x, {"write"})
      BY <1>12 DEF HeadIn
  <2>3. QED
      BY <1>5, <1>9, <1>13, <1>14, <2>1, <2>2 DEF Relies, HeadIn
<1>18. RowsInv'
  <2>1. ASSUME NEW u \in Tokens \ clash, bots'[u] = 0 PROVE rows[u] = None
      BY <1>6, <1>9, <2>1 DEF Inv, RowsInv, Registered
  <2>2. ASSUME NEW u \in Tokens \ (clash \cup unsaved) PROVE Agree(u)' \/ Pending(u)'
    <3>1. CASE u = t
          BY <1>12, <1>13, <1>14, <3>1 DEF Pending, HeadIn
    <3>2. CASE u # t
      <4>1. bots[u] # b /\ bots'[u] = bots[u]
            BY <1>3, <1>4, <1>6, <1>9, <3>2
      <4>2. Agree(u) => Agree(u)'
            BY <1>3, <1>5, <1>9, <4>1 DEF Agree, Registered
      <4>3. Pending(u) => Pending(u)'
            BY <1>14, <3>2, PendingStays
      <4>4. QED
            BY <4>2, <4>3 DEF Inv, RowsInv
    <3>3. QED
          BY <3>1, <3>2
  <2>3. QED
      BY <1>5, <2>1, <2>2 DEF Inv, RowsInv, Registered
<1>19. IsMaking(r) /\ IsChanging(r) /\ Lighter(r, x) /\ ~ Waiting(r) /\ ~ Waiting(x)
  <2>1. IsMaking(r) /\ IsChanging(r)
      BY <1>2, HeadMakes, MakingIsChanging
  <2>2. ~ Waiting(r) /\ ~ Waiting(x)
      BY <1>2, <1>12 DEF Waiting, HeadIn
  <2>3. QED
      BY <1>13, <2>1, <2>2 DEF Lighter
<1>20. \A u \in DOMAIN heap : heap'[u].token = heap[u].token /\ heap'[u].conn = heap[u].conn
  <2>1. CASE bots[t] = 0
      BY <1>4, <1>6, <1>9, <2>1
  <2>2. CASE bots[t] # 0
      BY <1>6, <1>9, <2>2
  <2>3. QED
      BY <2>1, <2>2
<1>21. /\ IsFiniteSet(DOMAIN heap') /\ DOMAIN heap' \subseteq Nat \ {0}
       /\ DOMAIN heap \subseteq DOMAIN heap'
       /\ \A u \in DOMAIN heap' \ DOMAIN heap : heap'[u].conn = 0
       BY <1>3, <1>6, <1>9, FS_AddElement
<1>22. \A u \in Tokens : bots'[u] # 0 => heap'[bots'[u]].token = u
       BY <1>3, <1>9, <1>20
<1>23. \A u \in Tokens : bots'[u] # bots[u] =>
           /\ r.token = u /\ IsMaking(r)
           /\ u \in clash \/ bots[u] = 0 \/ heap[bots[u]].conn = 0
       BY <1>9, <1>19
<1>24. QED
       BY <1>3, <1>5, <1>9, <1>13, <1>15, <1>16, <1>17, <1>18, <1>19, <1>20, <1>21, <1>22,
          <1>23, TableStep

(***************************************************************************)
(* Steps that make, take away or hand over a connection.                   *)
(***************************************************************************)
LEMMA DisposeKeepsInv ==
    ASSUME Inv, NEW p \in Procs, Busy(p), th[p].todo[1] \in {"logout", "stop", "switch"},
           NEW y \in Thread, y.todo = th[p].todo, y.token = th[p].token, y.bot = th[p].bot,
           y.conn = th[p].conn, y.created = th[p].created, y.ready = th[p].ready,
           y.answer = th[p].answer, y.torn = th[p].torn,
           heap' = [heap EXCEPT ![th[p].bot].conn = 0],
           conns' = conns \ {heap[th[p].bot].conn}, up' = up \ {heap[th[p].bot].conn},
           Tear(p, Pop(y), th[p].bot),
           UNCHANGED <<rows, bots, pairing, made, replaced, control, history>>
    PROVE  Inv'
<1> DEFINE r == th[p]
           t == r.token
           b == r.bot
           c == heap[b].conn
           x == Pop(y)
<1>1. /\ r \in Thread /\ InOrder(r) /\ Relies(r) /\ t \in Tokens /\ r.todo # <<>>
      BY HeadIs DEF Busy
<1>2. b \in DOMAIN heap /\ heap[b].token = t /\ b # 0
      BY <1>1, HoldsBot DEF HeadIn, UsesBot
<1>3. ~ r.ready /\ r.conn = 0 /\ ~ r.created /\ ~ Waiting(r)
  <2>1. r.todo[1] \in Range(r.todo) /\ r.todo[1] \in Rebinds
      BY <1>1, FirstStep DEF Rebinds
  <2>2. ~ r.ready /\ ~ (r.conn # 0)
      BY <1>1, <2>1 DEF InOrder
  <2>3. ~ r.created /\ ~ Waiting(r)
      BY <1>1 DEF InOrder, HeadIn, Waiting
  <2>4. QED
      BY <2>2, <2>3
<1>4. /\ x \in Thread
      /\ \/ Ended(y, x) /\ x.answer = "done"
         \/ Moved(y, 1, x) /\ x = [y EXCEPT !.todo = Rest(y.todo, 1)]
      BY <1>1, PopMoves
<1>5. /\ \A q \in Procs \ {p} : /\ Alike(th[q], th'[q]) /\ th'[q] \in Thread
                                /\ ~ th'[q].torn => th[q].bot # b
      /\ th'[p] = x /\ th' \in [Procs -> Thread]
  <2>1. th' = [q \in Procs |->
               IF q = p THEN x
               ELSE IF th[q].bot = b /\ b # 0 THEN [th[q] EXCEPT !.torn = TRUE] ELSE th[q]]
      BY DEF Tear
  <2>2. th \in [Procs -> Thread]
      BY DEF Inv, TypeInv
  <2> HIDE DEF x
  <2>3. ASSUME NEW q \in Procs \ {p}
        PROVE  /\ Alike(th[q], th'[q]) /\ th'[q] \in Thread
               /\ ~ th'[q].torn => th[q].bot # b
    <3>1. th[q] \in Thread
          BY <2>2
    <3>2. CASE th[q].bot = b
      <4>1. th'[q] = [th[q] EXCEPT !.torn = TRUE]
            BY <1>2, <2>1, <3>2
      <4>2. QED
            BY <3>1, <4>1 DEF Thread, Alike
    <3>3. CASE th[q].bot # b
      <4>1. th'[q] = th[q]
            BY <2>1, <3>3
      <4>2. QED
            BY <3>1, <3>3, <4>1 DEF Alike
    <3>4. QED
          BY <3>2, <3>3
  <2>4. th'[p] = x
      BY <2>1
  <2>5. \A q \in Procs : th'[q] \in Thread
      BY <1>4, <2>3, <2>4
  <2>6. QED
      BY <2>1, <2>3, <2>4, <2>5
<1> HIDE DEF x
<1>6. /\ InOrder(x) /\ ~ Waiting(x) /\ Lighter(r, x) /\ x.conn = 0
      /\ x.todo # <<>> => /\ ~ x.ready /\ x.token = t /\ x.bot = b /\ ~ x.created
                          /\ ~ HeadIn(x, {"settle", "forget", "write"})
  <2>1. CASE Ended(y, x) /\ x.answer = "done"
      BY <2>1, EndedIs DEF Lighter
  <2>2. CASE Moved(y, 1, x) /\ x = [y EXCEPT !.todo = Rest(y.todo, 1)]
    <3>1. /\ Moved(r, 1, x) /\ x.token = t /\ x.bot = b /\ ~ x.created /\ ~ x.ready
          /\ x.conn = 0 /\ x.todo = Rest(r.todo, 1) /\ x.todo # <<>>
          BY <1>3, <2>2 DEF Moved, Thread
    <3>2. Chained(r.todo) /\ r.todo \in Seq(Steps) /\ 1 \in 1..Len(r.todo)
          BY <1>1, FirstStep DEF InOrder, Orderly
    <3>3. ~ HeadIn(x, {"settle", "forget", "write"})
      <4>1. CASE r.todo[1] = "logout"
            BY <3>1, <3>2, <4>1, NextStep, FollowsFacts DEF HeadIn
      <4>2. CASE r.todo[1] \in {"stop", "switch"}
            BY <3>1, <3>2, <4>2, NextStep, FollowsFacts DEF HeadIn
      <4>3. QED
            BY <4>1, <4>2
    <3>4. x.todo[1] # "pair" /\ Range(x.todo) \subseteq Range(r.todo)
          BY <1>1, <3>1, GoesOnApart
    <3>5. \A i \in 1..1 : r.todo[i] \notin Takes
          BY DEF Takes
    <3>6. InOrder(x)
          BY <1>1, <1>2, <1>3, <3>1, <3>5, MovedInOrder
    <3>7. Lighter(r, x) /\ ~ Waiting(x)
          BY <1>2, <3>1, <3>4 DEF Lighter, IsMaking, IsChanging, InUse, Waiting, HeadIn
    <3>8. QED
          BY <3>1, <3>3, <3>6, <3>7
  <2>3. QED
      BY <1>4, <2>1, <2>2
<1>7. /\ heap \in [DOMAIN heap -> Object] /\ IsFiniteSet(DOMAIN heap)
      /\ DOMAIN heap \subseteq Nat \ {0} /\ heap[b] \in Object
      /\ \A u \in Tokens : bots[u] # 0 => heap[bots[u]].token = u
      /\ bots \in [Tokens -> {0} \cup DOMAIN heap]
      BY <1>2 DEF Inv, TypeInv
<1>8. heap' = [heap EXCEPT ![b] = [heap[b] EXCEPT !.conn = 0]]
      OBVIOUS
<1>9. /\ [heap[b] EXCEPT !.conn = 0] \in Object
      /\ [heap[b] EXCEPT !.conn = 0].token = heap[b].token
      /\ [heap[b] EXCEPT !.conn = 0].wid = heap[b].wid
      /\ [heap[b] EXCEPT !.conn = 0].conf = heap[b].conf
      /\ [heap[b] EXCEPT !.conn = 0].conn = 0
      BY <1>7 DEF Object
<1>10. /\ DOMAIN heap' = DOMAIN heap /\ heap' \in [DOMAIN heap -> Object]
       /\ \A o \in DOMAIN heap : o # b => heap'[o] = heap[o]
       /\ heap'[b].conn = 0
       /\ \A o \in DOMAIN heap : /\ heap'[o].token = heap[o].token /\ heap'[o].wid = heap[o].wid
                                 /\ heap'[o].conf = heap[o].conf
  <2>1. /\ DOMAIN heap' = DOMAIN heap /\ heap'[b] = [heap[b] EXCEPT !.conn = 0]
        /\ \A o \in DOMAIN heap : o # b => heap'[o] = heap[o]
      BY <1>2, <1>7, <1>8
  <2>2. heap' \in [DOMAIN heap -> Object]
      BY <1>2, <1>7, <1>8, <1>9
  <2>3. QED
      BY <1>9, <2>1, <2>2
<1>11. UNCHANGED <<rows, bots, pairing, made, replaced, starting, clash, unsaved>>
       BY DEF control, history
<1>12. c # 0 => /\ c \in conns /\ c \notin DOMAIN pairing \cup replaced
                /\ \A o \in DOMAIN heap : heap[o].conn = c => o = b
       BY <1>2 DEF Inv, Apart
<1>13. replaced \subseteq conns' /\ DOMAIN pairing \subseteq conns' \ replaced /\ 0 \notin conns
  <2>1. replaced \subseteq conns /\ DOMAIN pairing \subseteq conns \ replaced
      BY DEF Inv, Apart
  <2>2. 0 \notin conns
      BY DEF Inv, TypeInv
  <2>3. QED
      BY <1>12, <2>1, <2>2
<1>14. TypeInv'
  <2>1. Thread' = Thread /\ Object' = Object /\ Row' = Row
      BY DEF Thread, Object, Row
  <2>2. conns' \subseteq 1..made /\ up' \subseteq conns'
      BY DEF Inv, TypeInv
  <2>3. \A u \in Tokens : bots[u] # 0 => heap'[bots[u]].token = u
      BY <1>7, <1>10
  <2>4. QED
      BY <1>5, <1>7, <1>10, <1>11, <2>1, <2>2, <2>3 DEF Inv, TypeInv
<1>15. OthersAlike(p)
       BY <1>5 DEF OthersAlike
<1>16. ClashInv'
       BY <1>5, <1>6, <1>11, <1>15, ClashStays DEF Inv
<1>17. \A q \in Procs : Waiting(th'[q]) => q # p /\ Waiting(th[q])
       BY <1>5, <1>6 DEF Waiting, HeadIn, Alike
<1>18. \A q \in Procs : q # p => th'[q].conn = th[q].conn
       BY <1>5 DEF Alike
<1>19. Apart'
  <2>1. ASSUME NEW o \in DOMAIN heap, heap'[o].conn # 0
        PROVE  /\ heap'[o].conn \in conns' \ (DOMAIN pairing \cup replaced)
               /\ \A u \in DOMAIN heap : heap'[u].conn = heap'[o].conn => u = o
    <3>1. o # b /\ heap'[o] = heap[o]
          BY <1>10, <2>1
    <3>2. /\ heap[o].conn \in conns \ (DOMAIN pairing \cup replaced)
          /\ \A u \in DOMAIN heap : heap[u].conn = heap[o].conn => u = o
          BY <2>1, <3>1 DEF Inv, Apart
    <3>3. heap[o].conn # c
          BY <1>2, <3>1, <3>2
    <3>4. QED
          BY <1>10, <2>1, <3>1, <3>2, <3>3
  <2>2. \A q \in Procs : th'[q].conn \in (0..made) \ DOMAIN pairing
    <3>1. 0 \in (0..made) \ DOMAIN pairing
          BY <1>13 DEF Inv, TypeInv
    <3>2. QED
          BY <1>5, <1>6, <1>18, <3>1 DEF Inv, Apart
  <2>3. ASSUME NEW q \in Procs, Waiting(th'[q])
        PROVE  /\ th'[q].conn \in conns' \ replaced
               /\ \A o \in DOMAIN heap : heap'[o].conn # th'[q].conn
               /\ \A u \in Procs \ {q} : th'[u].conn # th'[q].conn
    <3>1. q # p /\ Waiting(th[q]) /\ th'[q].conn = th[q].conn
          BY <1>17, <1>18, <2>3
    <3>2. /\ th[q].conn \in conns \ replaced
          /\ \A o \in DOMAIN heap : heap[o].conn # th[q].conn
          /\ \A u \in Procs \ {q} : th[u].conn # th[q].conn
          BY <3>1 DEF Inv, Apart
    <3>3. th[q].conn # 0
          BY <1>13, <3>2
    <3>4. \A o \in DOMAIN heap : heap'[o].conn # th[q].conn
          BY <1>10, <3>2, <3>3
    <3>5. \A u \in Procs \ {q} : th'[u].conn # th[q].conn
          BY <1>5, <1>6, <1>18, <3>2, <3>3
    <3>6. QED
          BY <1>2, <3>1, <3>2, <3>4, <3>5
  <2>4. QED
      BY <1>10, <1>11, <1>13, <2>1, <2>2, <2>3 DEF Apart, Waiting, HeadIn
<1>20. Owned'
  <2>1. \A o \in DOMAIN heap : heap'[o].conn # 0 =>
            bots[heap'[o].token] = o \/ heap'[o].token \in clash
      BY <1>10 DEF Inv, Owned
  <2>2. ASSUME NEW d \in conns'
        PROVE  \/ d \in replaced \cup DOMAIN pairing
               \/ \E o \in DOMAIN heap : heap'[o].conn = d
               \/ \E q \in Procs : Waiting(th'[q]) /\ th'[q].conn = d
    <3>1. d \in conns /\ d # c
          OBVIOUS
    <3>2. CASE \E o \in DOMAIN heap : heap[o].conn = d
          BY <1>10, <3>1, <3>2
    <3>3. ASSUME NEW q \in Procs, Waiting(th[q]), th[q].conn = d PROVE Waiting(th'[q]) /\ th'[q].conn = d
          BY <1>3, <1>5, <1>18, <3>3 DEF Waiting, HeadIn, Alike
    <3>4. QED
          BY <3>1, <3>2, <3>3 DEF Inv, Owned
  <2>3. QED
      BY <1>10, <1>11, <2>1, <2>2 DEF Owned, Waiting, HeadIn
<1>21. RowsInv'
  <2>1. \A u \in Tokens : Agree(u) => Agree(u)'
      BY <1>7, <1>10, <1>11 DEF Agree, Registered
  <2>2. ASSUME NEW u \in Tokens, Pending(u) PROVE Pending(u)'
    <3>1. PICK q \in Procs : th[q].token = u /\ HeadIn(th[q], {"exists", "write", "forget"})
          BY <2>2 DEF Pending
    <3>2. q # p
          BY <3>1 DEF HeadIn
    <3>3. QED
          BY <1>5, <3>1, <3>2 DEF Pending, HeadIn, Alike
  <2>3. QED
      BY <1>11, <2>1, <2>2 DEF Inv, RowsInv, Registered
<1>22. ASSUME NEW q \in Procs PROVE InOrder(th[q])' /\ Keeps(th[q])' /\ Relies(th[q])'
  <2>1. CASE q = p
    <3>1. InOrder(th[p])'
          BY <1>5, <1>6, <1>10 DEF InOrder, HeadIn
    <3>2. Keeps(th[p])'
          BY <1>5, <1>6 DEF Keeps
    <3>3. Relies(th[p])'
      <4>1. r.todo[1] \in Range(r.todo) \cap Writes
            BY <1>1, FirstStep DEF Writes, MakesOrDeletes
      <4>2. t \notin clash => bots[t] = b
            BY <1>1, <1>2, <4>1 DEF Relies
      <4>3. QED
            BY <1>5, <1>6, <1>10, <1>11, <4>2 DEF Relies, HeadIn
    <3>4. QED
          BY <2>1, <3>1, <3>2, <3>3
  <2>2. CASE q # p
    <3>1. /\ Alike(th[q], th'[q]) /\ InOrder(th[q]) /\ Keeps(th[q]) /\ th'[q] \in Thread
          /\ Relies(th[q]) /\ th[q] \in Thread /\ (~ th'[q].torn => th[q].bot # b)
          BY <1>5, <2>2 DEF Inv, TypeInv
    <3>2. InOrder(th[q])'
          BY <1>10, <3>1, OthersKeepOrder
    <3>3. Relies(th[q])'
          BY <1>1, <1>10, <1>11, <2>2, <3>1, OthersRely DEF Inv
    <3>4. Keeps(th[q])'
      <4> DEFINE s == th[q]
      <4>1. /\ th'[q].todo = s.todo /\ th'[q].bot = s.bot /\ th'[q].conn = s.conn
            /\ th'[q].ready = s.ready /\ (th'[q].torn = s.torn \/ th'[q].torn = TRUE)
            BY <3>1 DEF Alike
      <4>2. SUFFICES ASSUME s.todo # <<>>, ~ th'[q].torn
            PROVE /\ s.conn # 0 => /\ s.conn \in conns'
                                   /\ \/ s.conn \in replaced' \/ Waiting(th'[q])
                                      \/ s.bot # 0 /\ heap'[s.bot].conn = s.conn
                  /\ s.ready => s.bot # 0 /\ heap'[s.bot].conn # 0
            BY <4>1 DEF Keeps, Waiting, HeadIn
      <4>3. /\ ~ s.torn /\ s.bot # b /\ s.bot \in {0} \cup DOMAIN heap
            /\ s.bot # 0 => heap'[s.bot] = heap[s.bot]
            BY <1>10, <3>1, <4>1, <4>2 DEF InOrder
      <4>4. /\ s.conn # 0 => /\ s.conn \in conns
                             /\ \/ s.conn \in replaced \/ Waiting(s)
                                \/ s.bot # 0 /\ heap[s.bot].conn = s.conn
            /\ s.ready => s.bot # 0 /\ heap[s.bot].conn # 0
            BY <3>1, <4>2, <4>3 DEF Keeps
      <4>5. s.conn # 0 => s.conn # c
        <5>1. CASE s.conn \in replaced
              BY <1>12, <5>1
        <5>2. CASE Waiting(s)
              BY <1>2, <5>2 DEF Inv, Apart
        <5>3. CASE s.bot # 0 /\ heap[s.bot].conn = s.conn
              BY <1>12, <4>3, <5>3
        <5>4. QED
              BY <4>4, <5>1, <5>2, <5>3
      <4>6. Waiting(s) => Waiting(th'[q])
            BY <4>1 DEF Waiting, HeadIn
      <4>7. QED
            BY <1>11, <4>3, <4>4, <4>5, <4>6
    <3>5. QED
          BY <3>2, <3>3, <3>4
  <2>3. QED
      BY <2>1, <2>2
<1>23. QED
       BY <1>14, <1>16, <1>19, <1>20, <1>21, <1>22 DEF Inv

LEMMA LogoutKeepsInv ==
    ASSUME Inv, NEW p \in Procs, Logout(p)
    PROVE  Inv'
<1> DEFINE r == th[p]
           c == heap[r.bot].conn
           y == [r EXCEPT !.did = TRUE]
<1>1. Busy(p) /\ At(p, "logout")
      BY DEF Logout, At
<1>2. /\ r \in Thread /\ r.todo[1] = "logout"
      /\ ~ HeadIn(r, {"pair", "exists", "write", "forget"})
      BY <1>1, HeadIs
<1>3. UNCHANGED <<rows, bots, pairing, made, replaced, control, history>>
      BY DEF Logout
<1>4. CASE Answer(p, "failed") /\ UNCHANGED <<heap, conns, up>>
  <2>1. UNCHANGED requests
      BY <1>3, <1>4 DEF requests, control, history
  <2>2. QED
      BY <1>2, <1>4, <2>1, IsAnswered DEF Answers
<1>5. CASE /\ heap' = [heap EXCEPT ![r.bot].conn = 0]
           /\ conns' = conns \ {c} /\ up' = up \ {c}
           /\ Tear(p, Pop(y), r.bot)
  <2>1. /\ y \in Thread /\ y.todo = r.todo /\ y.token = r.token /\ y.bot = r.bot
        /\ y.conn = r.conn /\ y.created = r.created /\ y.ready = r.ready
        /\ y.answer = r.answer /\ y.torn = r.torn
      BY <1>2 DEF Thread
  <2> HIDE DEF y
  <2>2. QED
      BY <1>1, <1>2, <1>3, <1>5, <2>1, DisposeKeepsInv
<1>6. QED
      BY <1>4, <1>5 DEF Logout

LEMMA StopKeepsInv ==
    ASSUME Inv, NEW p \in Procs, Stop(p)
    PROVE  Inv'
<1> DEFINE r == th[p]
           c == heap[r.bot].conn
<1>1. Busy(p) /\ (At(p, "stop") \/ At(p, "switch"))
      BY DEF Stop, At
<1>2. /\ r \in Thread /\ r.todo[1] \in {"stop", "switch"}
      /\ ~ HeadIn(r, Takes)
      /\ ~ HeadIn(r, {"bot", "first", "lookup", "settle", "set", "toggle", "pair",
                      "exists", "write", "logout", "delete", "forget"})
      BY <1>1, HeadIs DEF Takes
<1>3. UNCHANGED <<rows, bots, pairing, made, replaced, control, history>>
      BY DEF Stop, Disconnect
<1>4. CASE Next1(p) /\ UNCHANGED <<heap, conns, up>>
  <2>1. UNCHANGED requests
      BY <1>3, <1>4 DEF requests, control, history
  <2>2. QED
      BY <1>1, <1>2, <1>4, <2>1, PopsOn DEF Next1
<1>5. CASE /\ heap' = [heap EXCEPT ![r.bot].conn = 0]
           /\ conns' = conns \ {c} /\ up' = up \ {c}
           /\ Tear(p, Pop(r), r.bot)
      BY <1>1, <1>2, <1>3, <1>5, DisposeKeepsInv
<1>6. QED
  <2>1. Disconnect(p, r.bot)
      BY DEF Stop
  <2>2. QED
      BY <1>4, <1>5, <2>1 DEF Disconnect

LEMMA StartKeepsInv ==
    ASSUME Inv, NEW p \in Procs, Start(p)
    PROVE  Inv'
<1> DEFINE r == th[p]
           t == r.token
           b == r.bot
           c == IF Free(b) THEN made + 1 ELSE heap[b].conn
<1>1. Busy(p) /\ (At(p, "start") \/ At(p, "switch"))
      BY DEF Start, At
<1>2. /\ r \in Thread /\ InOrder(r) /\ Keeps(r) /\ Relies(r) /\ t \in Tokens /\ r.todo # <<>>
      /\ r.todo[1] \in {"start", "switch"} /\ HeadIn(r, UsesBot) /\ HeadIn(r, Writes)
      /\ ~ HeadIn(r, Takes) /\ ~ HeadIn(r, {"pair", "exists", "write", "forget"})
      /\ ~ HeadIn(r, {"bot", "first", "lookup", "settle", "set", "toggle", "pair",
                      "exists", "write", "logout", "delete", "forget"})
  <2>1. r.todo[1] \in {"start", "switch"}
      BY <1>1, HeadIs
  <2>2. r \in Thread /\ InOrder(r) /\ Keeps(r) /\ Relies(r) /\ t \in Tokens /\ r.todo # <<>>
      BY <1>1, HeadIs DEF Busy
  <2>3. QED
      BY <2>1, <2>2 DEF HeadIn, UsesBot, Writes, Takes
<1>3. b \in DOMAIN heap /\ heap[b].token = t /\ b # 0
      BY <1>2, HoldsBot
<1>4. UNCHANGED <<rows, bots, pairing, replaced, starting, clash, unsaved>>
      BY DEF Start, Connect, control, history, sessions
<1>5. CASE Answer(p, "failed") /\ UNCHANGED <<heap, sessions>>
  <2>1. UNCHANGED requests
      BY <1>4, <1>5 DEF requests, sessions
  <2>2. QED
      BY <1>2, <1>5, <2>1, IsAnswered DEF Answers
<1>6. CASE Connect(p, b)
  <2>1. /\ heap' = [heap EXCEPT ![b] = [heap[b] EXCEPT !.conn = c]]
        /\ made' = IF Free(b) THEN made + 1 ELSE made
        /\ conns' = conns \cup {c} /\ up' \subseteq up \cup {c}
      BY <1>6 DEF Connect
  <2>2. (up' = up /\ Answer(p, "failed")) \/ Next1(p)
      BY <1>6 DEF Connect
  <2>3. PICK x : /\ th' = [th EXCEPT ![p] = x] /\ x \in Thread
                 /\ \/ Ended(r, x) /\ x.answer # "panic"
                    \/ Moved(r, 1, x) /\ x = [r EXCEPT !.todo = Rest(r.todo, 1)]
    <3>1. CASE Answer(p, "failed")
      <4>1. Ended(r, Answered(r, "failed")) /\ Answered(r, "failed").answer = "failed"
            BY <1>2, AnsweredEnds DEF Answers
      <4>2. QED
            BY <3>1, <4>1 DEF Answer, Set, Ended
    <3>2. CASE Next1(p)
      <4>1. /\ Pop(r) \in Thread
            /\ \/ Ended(r, Pop(r)) /\ Pop(r).answer = "done"
               \/ Moved(r, 1, Pop(r)) /\ Pop(r) = [r EXCEPT !.todo = Rest(r.todo, 1)]
            BY <1>2, PopMoves
      <4>2. QED
            BY <3>2, <4>1 DEF Next1, Set
    <3>3. QED
          BY <2>2, <3>1, <3>2
  <2>4. th'[p] = x /\ \A q \in Procs \ {p} : th'[q] = th[q]
      BY <2>3 DEF Inv, TypeInv
  <2>5. OthersAlike(p)
      BY <2>4 DEF OthersAlike, Alike
  <2>6. ~ r.created /\ ~ Waiting(r)
      BY <1>2 DEF InOrder, HeadIn, Waiting
  <2>7. /\ InOrder(x) /\ ~ Waiting(x) /\ Lighter(r, x) /\ x.conn \in {0, r.conn}
        /\ x.todo # <<>> => /\ x.conn = r.conn /\ x.ready = r.ready /\ x.torn = r.torn
                            /\ x.token = t /\ x.bot = b /\ ~ x.created
                            /\ ~ HeadIn(x, {"settle", "clear", "delete", "forget", "write"})
    <3>1. CASE Ended(r, x) /\ x.answer # "panic"
          BY <3>1, EndedIs DEF Lighter
    <3>2. CASE Moved(r, 1, x) /\ x = [r EXCEPT !.todo = Rest(r.todo, 1)]
      <4>1. /\ x.token = t /\ x.bot = b /\ ~ x.created /\ x.ready = r.ready /\ x.torn = r.torn
            /\ x.conn = r.conn /\ x.todo = Rest(r.todo, 1) /\ x.todo # <<>>
            BY <1>2, <2>6, <3>2 DEF Moved, Thread
      <4>2. Chained(r.todo) /\ r.todo \in Seq(Steps) /\ 1 \in 1..Len(r.todo)
            BY <1>2, FirstStep DEF InOrder, Orderly
      <4>3. x.todo[1] \notin Range(Follows)
            BY <1>2, <4>1, <4>2, NextStep, FollowsFacts
      <4>4. ~ HeadIn(x, {"settle", "clear", "delete", "forget", "write"})
            BY <4>3, FollowsFacts DEF HeadIn
      <4>5. x.todo[1] # "pair" /\ Range(x.todo) \subseteq Range(r.todo)
            BY <1>2, <3>2, GoesOnApart
      <4>6. \A i \in 1..1 : r.todo[i] \notin Takes
            BY <1>2 DEF Takes
      <4>7. r \in Thread /\ InOrder(r) /\ Moved(r, 1, x) /\ x.created = FALSE
            BY <1>2, <3>2, <4>1
      <4>8. InOrder(x)
        <5>1. /\ x.bot \in {0} \cup DOMAIN heap /\ heap[x.bot].token = x.token
              /\ x.bot # 0 /\ x.token \in Tokens
              BY <1>2, <1>3, <4>1
        <5>2. x.conn = 0 => r.conn = 0 /\ \A i \in 1..1 : r.todo[i] \notin Takes
              BY <4>1, <4>6
        <5>3. x.ready \/ x.conn # 0 => r.ready \/ r.conn # 0
              BY <4>1
        <5>4. QED
              BY <4>7, <5>1, <5>2, <5>3, MovedInOrder
      <4>9. Lighter(r, x) /\ ~ Waiting(x)
        <5>1. InUse(r)
              BY <1>3 DEF InUse
        <5>2. ~ Waiting(x)
              BY <4>5 DEF Waiting, HeadIn
        <5>3. IsChanging(x) => IsChanging(r)
              BY <4>5, <5>1 DEF IsChanging
        <5>4. IsMaking(x) => IsMaking(r)
              BY <4>1, <4>5, <5>1 DEF IsMaking
        <5>5. QED
              BY <4>1, <5>2, <5>3, <5>4 DEF Lighter
      <4>10. QED
            BY <4>1, <4>4, <4>8, <4>9
    <3>3. QED
          BY <2>3, <3>1, <3>2
  <2>8. /\ heap \in [DOMAIN heap -> Object] /\ IsFiniteSet(DOMAIN heap)
        /\ DOMAIN heap \subseteq Nat \ {0} /\ heap[b] \in Object /\ heap[b].conn \in Nat
        /\ \A u \in Tokens : bots[u] # 0 => heap[bots[u]].token = u
        /\ bots \in [Tokens -> {0} \cup DOMAIN heap]
        /\ made \in Nat /\ conns \subseteq 1..made /\ up \subseteq conns
      BY <1>3 DEF Inv, TypeInv, Object
  <2>9. \/ /\ heap[b].conn = 0 /\ c = made + 1 /\ made' = made + 1
        \/ /\ heap[b].conn # 0 /\ c = heap[b].conn /\ made' = made
           /\ c \in conns \ (DOMAIN pairing \cup replaced)
           /\ \A u \in DOMAIN heap : heap[u].conn = c => u = b
    <3>1. CASE heap[b].conn = 0
          BY <2>1, <3>1 DEF Free
    <3>2. CASE heap[b].conn # 0
          BY <1>3, <2>1, <3>2 DEF Free, Inv, Apart
    <3>3. QED
          BY <3>1, <3>2
  <2> HIDE DEF c
  <2>10. /\ made' \in Nat /\ made' >= made /\ conns' \subseteq 1..made' /\ up' \subseteq conns'
         /\ c \in Nat /\ c # 0 /\ 0 \notin conns
    <3>1. CASE c = made + 1 /\ made' = made + 1
          BY <2>1, <2>8, <3>1
    <3>2. CASE c \in conns /\ made' = made
          BY <2>1, <2>8, <3>2
    <3>3. QED
          BY <2>9, <3>1, <3>2
  <2>11. heap[b].conn = 0 => /\ c \notin conns
                             /\ \A u \in DOMAIN heap : heap[u].conn # c
                             /\ \A q \in Procs : th[q].conn # c
    <3>1. made + 1 \notin 0..made /\ made + 1 \notin conns
          BY <2>8
    <3>2. \A u \in DOMAIN heap : heap[u].conn \in 0..made
          BY <2>8 DEF Inv, Apart, Object
    <3>3. \A q \in Procs : th[q].conn \in 0..made
          BY DEF Inv, Apart
    <3>4. QED
          BY <2>9, <3>1, <3>2, <3>3
  <2>12. c \notin DOMAIN pairing \cup replaced
    <3>1. DOMAIN pairing \cup replaced \subseteq conns
          BY DEF Inv, Apart
    <3>2. QED
          BY <2>9, <2>11, <3>1
  <2>13. \A u \in DOMAIN heap : heap[u].conn = c => u = b
      BY <2>9, <2>11
  <2>14. /\ [heap[b] EXCEPT !.conn = c] \in Object
         /\ [heap[b] EXCEPT !.conn = c].token = heap[b].token
         /\ [heap[b] EXCEPT !.conn = c].wid = heap[b].wid
         /\ [heap[b] EXCEPT !.conn = c].conf = heap[b].conf
         /\ [heap[b] EXCEPT !.conn = c].conn = c
      BY <2>8, <2>10 DEF Object
  <2>15. /\ DOMAIN heap' = DOMAIN heap /\ heap' \in [DOMAIN heap -> Object]
         /\ \A o \in DOMAIN heap : o # b => heap'[o] = heap[o]
         /\ heap'[b].conn = c
         /\ \A o \in DOMAIN heap : /\ heap'[o].token = heap[o].token /\ heap'[o].wid = heap[o].wid
                                   /\ heap'[o].conf = heap[o].conf
    <3>1. /\ DOMAIN heap' = DOMAIN heap /\ heap'[b] = [heap[b] EXCEPT !.conn = c]
          /\ \A o \in DOMAIN heap : o # b => heap'[o] = heap[o]
          BY <1>3, <2>1, <2>8
    <3>2. heap' \in [DOMAIN heap -> Object]
          BY <1>3, <2>1, <2>8, <2>14
    <3>3. QED
          BY <2>14, <3>1, <3>2
  <2>16. TypeInv'
    <3>1. Thread' = Thread /\ Object' = Object /\ Row' = Row
          BY DEF Thread, Object, Row
    <3>2. \A u \in Tokens : bots[u] # 0 => heap'[bots[u]].token = u
          BY <2>8, <2>15
    <3>3. th' \in [Procs -> Thread]
          BY <2>3 DEF Inv, TypeInv
    <3>4. QED
          BY <1>4, <2>8, <2>10, <2>15, <3>1, <3>2, <3>3 DEF Inv, TypeInv
  <2>17. ClashInv'
      BY <1>4, <2>4, <2>5, <2>7, ClashStays DEF Inv
  <2>18. \A q \in Procs : Waiting(th'[q]) => q # p /\ Waiting(th[q]) /\ th'[q] = th[q]
      BY <2>4, <2>7
  <2>19. Apart'
    <3>1. replaced \subseteq conns' /\ DOMAIN pairing \subseteq conns' \ replaced
          BY <2>1 DEF Inv, Apart
    <3>2. ASSUME NEW o \in DOMAIN heap, heap'[o].conn # 0
          PROVE  /\ heap'[o].conn \in conns' \ (DOMAIN pairing \cup replaced)
                 /\ \A u \in DOMAIN heap : heap'[u].conn = heap'[o].conn => u = o
      <4>1. CASE o = b
            BY <2>1, <2>12, <2>13, <2>15, <4>1
      <4>2. CASE o # b
        <5>1. heap'[o] = heap[o]
              BY <2>15, <4>2
        <5>2. /\ heap[o].conn \in conns \ (DOMAIN pairing \cup replaced)
              /\ \A u \in DOMAIN heap : heap[u].conn = heap[o].conn => u = o
              BY <3>2, <5>1 DEF Inv, Apart
        <5>3. heap[o].conn # c
              BY <2>13, <4>2
        <5>4. QED
              BY <2>1, <2>15, <5>1, <5>2, <5>3
      <4>3. QED
            BY <4>1, <4>2
    <3>3. \A q \in Procs : th'[q].conn \in (0..made') \ DOMAIN pairing
      <4>1. 0..made \subseteq 0..made' /\ 0 \in 0..made' /\ 0 \notin DOMAIN pairing
        <5>1. DOMAIN pairing \subseteq conns
              BY DEF Inv, Apart
        <5>2. QED
              BY <2>8, <2>10, <5>1
      <4>2. \A q \in Procs : th'[q].conn \in {0, th[q].conn}
            BY <2>4, <2>7
      <4>3. \A q \in Procs : th[q].conn \in (0..made) \ DOMAIN pairing
            BY DEF Inv, Apart
      <4>4. QED
            BY <4>1, <4>2, <4>3
    <3>4. ASSUME NEW q \in Procs, Waiting(th'[q])
          PROVE  /\ th'[q].conn \in conns' \ replaced
                 /\ \A o \in DOMAIN heap : heap'[o].conn # th'[q].conn
                 /\ \A u \in Procs \ {q} : th'[u].conn # th'[q].conn
      <4>1. q # p /\ th'[q] = th[q] /\ Waiting(th[q])
            BY <2>18, <3>4
      <4>2. /\ th[q].conn \in conns \ replaced
            /\ \A o \in DOMAIN heap : heap[o].conn # th[q].conn
            /\ \A u \in Procs \ {q} : th[u].conn # th[q].conn
            BY <4>1 DEF Inv, Apart
      <4>3. th[q].conn # 0
            BY <2>10, <4>2
      <4>4. th[q].conn # c
            BY <1>3, <2>9, <2>11, <4>2
      <4>5. \A o \in DOMAIN heap : heap'[o].conn # th[q].conn
            BY <2>15, <4>2, <4>4
      <4>6. \A u \in Procs \ {q} : th'[u].conn # th[q].conn
            BY <2>4, <2>7, <4>2, <4>3
      <4>7. QED
            BY <2>1, <4>1, <4>2, <4>5, <4>6
    <3>5. QED
          BY <1>4, <2>15, <3>1, <3>2, <3>3, <3>4 DEF Apart, Waiting, HeadIn
  <2>20. t \notin clash => bots[t] = b
    <3>1. r.todo[1] \in Range(r.todo) \cap Writes
          BY <1>2, FirstStep DEF HeadIn
    <3>2. QED
          BY <1>2, <1>3, <3>1 DEF Relies
  <2>21. Owned'
    <3>1. ASSUME NEW o \in DOMAIN heap, heap'[o].conn # 0
          PROVE  bots[heap'[o].token] = o \/ heap'[o].token \in clash
      <4>1. CASE o = b
            BY <1>3, <2>15, <2>20, <4>1
      <4>2. CASE o # b
            BY <2>15, <3>1, <4>2 DEF Inv, Owned
      <4>3. QED
            BY <4>1, <4>2
    <3>2. ASSUME NEW d \in conns'
          PROVE  \/ d \in replaced \cup DOMAIN pairing
                 \/ \E o \in DOMAIN heap : heap'[o].conn = d
                 \/ \E q \in Procs : Waiting(th'[q]) /\ th'[q].conn = d
      <4>1. CASE d = c
            BY <1>3, <2>15, <4>1
      <4>2. CASE d # c
        <5>1. d \in conns
              BY <2>1, <4>2
        <5>2. ASSUME NEW o \in DOMAIN heap, heap[o].conn = d PROVE heap'[o].conn = d
          <6>1. d # 0
                BY <2>10, <5>1
          <6>2. o # b
                BY <2>9, <4>2, <5>2, <6>1
          <6>3. QED
                BY <2>15, <5>2, <6>2
        <5>3. ASSUME NEW q \in Procs, Waiting(th[q]), th[q].conn = d
              PROVE  Waiting(th'[q]) /\ th'[q].conn = d
              BY <2>4, <2>6, <5>3
        <5>4. QED
              BY <5>1, <5>2, <5>3 DEF Inv, Owned
      <4>3. QED
            BY <4>1, <4>2
    <3>3. QED
          BY <1>4, <2>15, <3>1, <3>2 DEF Owned, Waiting, HeadIn
  <2>22. RowsInv'
    <3>1. \A u \in Tokens : Agree(u) => Agree(u)'
          BY <1>4, <2>8, <2>15 DEF Agree, Registered
    <3>2. ~ HeadIn(r, {"exists", "write", "forget"})
          BY <1>2 DEF HeadIn
    <3>3. \A u \in Tokens : Pending(u) => Pending(u)'
          BY <2>4, <3>2, PendingStays
    <3>4. QED
          BY <1>4, <3>1, <3>3 DEF Inv, RowsInv, Registered
  <2>23. ASSUME NEW q \in Procs, Keeps(th[q]), ~ Waiting(th[q]) \/ q # p, InOrder(th[q]),
                th'[q].todo # <<>> => /\ th[q].todo # <<>> /\ th'[q].conn = th[q].conn
                                      /\ th'[q].ready = th[q].ready /\ th'[q].torn = th[q].torn
                                      /\ th'[q].bot = th[q].bot
         PROVE  Keeps(th[q])'
    <3> DEFINE s == th[q]
    <3>1. SUFFICES ASSUME th'[q].todo # <<>>, ~ th'[q].torn
          PROVE /\ s.conn # 0 => /\ s.conn \in conns'
                                 /\ \/ s.conn \in replaced' \/ Waiting(th'[q])
                                    \/ s.bot # 0 /\ heap'[s.bot].conn = s.conn
                /\ s.ready => s.bot # 0 /\ heap'[s.bot].conn # 0
          BY <2>23 DEF Keeps, Waiting, HeadIn
    <3>2. /\ s.conn # 0 => /\ s.conn \in conns
                           /\ \/ s.conn \in replaced \/ Waiting(s)
                              \/ s.bot # 0 /\ heap[s.bot].conn = s.conn
          /\ s.ready => s.bot # 0 /\ heap[s.bot].conn # 0
          BY <2>23, <3>1 DEF Keeps
    <3>3. s.bot \in {0} \cup DOMAIN heap
          BY <2>23 DEF InOrder
    <3>4. s.bot # 0 /\ heap[s.bot].conn # 0 => heap'[s.bot].conn = heap[s.bot].conn
          BY <2>9, <2>15, <3>3
    <3>5. Waiting(s) => Waiting(th'[q])
      <4>1. CASE q = p
            BY <2>6, <4>1
      <4>2. CASE q # p
            BY <2>4, <4>2
      <4>3. QED
            BY <4>1, <4>2
    <3>6. QED
          BY <1>4, <2>1, <3>2, <3>4, <3>5
  <2>24. ASSUME NEW q \in Procs PROVE InOrder(th[q])' /\ Keeps(th[q])' /\ Relies(th[q])'
    <3>1. CASE q = p
      <4>1. InOrder(th[p])'
            BY <2>4, <2>7, <2>15 DEF InOrder, HeadIn
      <4>2. Keeps(th[p])'
            BY <1>2, <2>4, <2>6, <2>7, <2>23
      <4>3. Relies(th[p])'
            BY <1>4, <2>4, <2>7, <2>20 DEF Relies, HeadIn
      <4>4. QED
            BY <3>1, <4>1, <4>2, <4>3
    <3>2. CASE q # p
      <4>1. /\ th'[q] = th[q] /\ Alike(th[q], th'[q]) /\ InOrder(th[q]) /\ Keeps(th[q])
            /\ Relies(th[q]) /\ th[q] \in Thread
            BY <2>4, <2>5, <3>2 DEF OthersAlike, Inv, TypeInv
      <4>2. InOrder(th[q])'
            BY <2>15, <4>1, OthersKeepOrder
      <4>3. Keeps(th[q])'
            BY <2>23, <3>2, <4>1
      <4>4. Relies(th[q])'
        <5>1. IsChanging(r)
              BY <1>2, HeadChanges
        <5>2. \A o \in DOMAIN heap : heap'[o].conn # heap[o].conn =>
                  heap'[o].conn = 0 \/ (heap[o].token = r.token /\ IsChanging(r))
              BY <1>3, <2>15, <5>1
        <5>3. QED
              BY <1>2, <1>4, <3>2, <4>1, <5>2, OthersRely DEF Inv
      <4>5. QED
            BY <4>2, <4>3, <4>4
    <3>3. QED
          BY <3>1, <3>2
  <2>25. QED
      BY <2>16, <2>17, <2>19, <2>21, <2>22, <2>24 DEF Inv
<1>7. QED
      BY <1>5, <1>6 DEF Start

(***************************************************************************)
(* Pairing.                                                                *)
(***************************************************************************)
LEMMA OnlyOne == \A i \in 1..1 : i = 1
OBVIOUS

\* a step that takes nothing and finds nothing
LEMMA PassesOn ==
    ASSUME Inv, NEW p \in Procs, Busy(p),
           HeadIn(th[p], {"new connection", "new page"})
    PROVE  LET r == th[p]
               x == Pop(th[p])
           IN /\ x \in Thread /\ InOrder(x) /\ ~ Waiting(x) /\ Lighter(r, x)
              /\ x.conn \in {0, r.conn}
              /\ x.todo # <<>> => /\ x.conn = r.conn /\ x.ready = r.ready /\ x.torn = r.torn
                                  /\ x.token = r.token /\ x.bot = r.bot /\ ~ x.created
                                  /\ Range(x.todo) \subseteq Range(r.todo)
                                  /\ ~ HeadIn(x, {"settle", "clear", "delete", "forget", "write"})
<1> DEFINE r == th[p]
           x == Pop(r)
<1>1. /\ r \in Thread /\ InOrder(r) /\ r.token \in Tokens /\ r.todo # <<>>
      /\ r.todo[1] \in {"new connection", "new page"}
      BY HeadIs DEF Busy, HeadIn
<1>2. /\ x \in Thread
      /\ \/ Ended(r, x) /\ x.answer = "done"
         \/ Moved(r, 1, x) /\ x = [r EXCEPT !.todo = Rest(r.todo, 1)]
      BY <1>1, PopMoves
<1> HIDE DEF x
<1>3. CASE Ended(r, x) /\ x.answer = "done"
  <2>1. /\ InOrder(x) /\ ~ Waiting(x) /\ x.todo = <<>> /\ ~ IsMaking(x) /\ ~ IsChanging(x)
        /\ x.conn = 0
      BY <1>3, EndedIs
  <2>2. QED
      BY <1>2, <2>1 DEF x, Lighter
<1>4. CASE Moved(r, 1, x) /\ x = [r EXCEPT !.todo = Rest(r.todo, 1)]
  <2>1. ~ r.created
      BY <1>1 DEF InOrder, HeadIn
  <2>2. /\ x.token = r.token /\ x.bot = r.bot /\ x.created = FALSE /\ x.ready = r.ready
        /\ x.torn = r.torn /\ x.conn = r.conn /\ x.todo = Rest(r.todo, 1) /\ x.todo # <<>>
      BY <1>1, <1>4, <2>1 DEF Moved, Thread
  <2>3. Chained(r.todo) /\ r.todo \in Seq(Steps) /\ 1 \in 1..Len(r.todo)
      BY <1>1, FirstStep DEF InOrder, Orderly
  <2>4. r.todo[1] \notin DOMAIN Follows
      BY <1>1, FollowsFacts
  <2>5. x.todo[1] \notin Range(Follows)
      BY <2>2, <2>3, <2>4, NextStep
  <2>6. ~ HeadIn(x, {"settle", "clear", "delete", "forget", "write"})
      BY <2>5, FollowsFacts DEF HeadIn
  <2>7. x.todo[1] # "pair" /\ Range(x.todo) \subseteq Range(r.todo)
      BY <1>1, <1>4, GoesOnApart
  <2>8. r.todo[1] \notin Takes /\ r.todo[1] \notin Finds
      BY <1>1 DEF Takes, Finds
  <2>9. InOrder(x)
    <3>1. Moved(r, 1, x)
          BY <1>4
    <3>2. \A i \in 1..1 : r.todo[i] \notin Takes /\ r.todo[i] \notin Finds
          BY <2>8, OnlyOne, Zenon
    <3>3. x.bot \in {0} \cup DOMAIN heap /\ (x.bot # 0 => heap[x.bot].token = x.token)
          BY <1>1, <2>2 DEF InOrder
    <3>4. x.bot = 0 => r.bot = 0 /\ \A i \in 1..1 : r.todo[i] \notin Finds
          BY <2>2, <3>2
    <3>5. x.conn = 0 => r.conn = 0 /\ \A i \in 1..1 : r.todo[i] \notin Takes
          BY <2>2, <3>2
    <3>6. x.ready \/ x.conn # 0 => r.ready \/ r.conn # 0
          BY <2>2
    <3>7. QED
          BY <1>1, <2>2, <3>1, <3>3, <3>4, <3>5, <3>6, MovedInOrder
  <2>10. ~ Waiting(x)
      BY <2>7 DEF Waiting, HeadIn
  <2>11. InUse(x) => InUse(r)
    <3>1. ~ HeadIn(x, {"settle", "pair"})
          BY <2>6, <2>7 DEF HeadIn
    <3>2. QED
          BY <2>2, <3>1 DEF InUse
  <2>12. Lighter(r, x)
      BY <2>2, <2>7, <2>11 DEF Lighter, IsMaking, IsChanging
  <2>13. QED
      BY <1>2, <2>2, <2>6, <2>7, <2>9, <2>10, <2>12 DEF x
<1>5. QED
      BY <1>2, <1>3, <1>4

LEMMA NewConnectionKeepsInv ==
    ASSUME Inv, NEW p \in Procs, NewConnection(p)
    PROVE  Inv'
<1> DEFINE r == th[p]
           x == Pop(r)
           d == made + 1
<1>1. Busy(p) /\ (At(p, "new connection") \/ At(p, "new page"))
      BY DEF NewConnection, At
<1>2. /\ r \in Thread /\ InOrder(r) /\ Keeps(r) /\ Relies(r) /\ r.token \in Tokens
      /\ r.todo # <<>> /\ r.todo[1] \in {"new connection", "new page"}
      BY <1>1, HeadIs DEF Busy
<1>3. ~ HeadIn(r, {"pair", "exists", "write", "forget"}) /\ ~ Waiting(r)
      BY <1>2 DEF HeadIn, Waiting
<1>4. UNCHANGED <<rows, bots, heap, up, replaced, starting, clash, unsaved>>
      BY DEF NewConnection, storage, control, history
<1>5. CASE Answer(p, "failed") /\ UNCHANGED <<made, conns, pairing>>
  <2>1. UNCHANGED requests
      BY <1>4, <1>5 DEF requests
  <2>2. QED
      BY <1>3, <1>5, <2>1, IsAnswered DEF Answers
<1>6. CASE /\ made' = d /\ conns' = conns \cup {d}
           /\ pairing' = [c \in DOMAIN pairing \cup {d} |->
                            IF c # d THEN pairing[c]
                            ELSE IF At(p, "new page") THEN None ELSE r.token]
           /\ Next1(p)
  <2>1. /\ x \in Thread /\ InOrder(x) /\ ~ Waiting(x) /\ Lighter(r, x) /\ x.conn \in {0, r.conn}
        /\ x.todo # <<>> => /\ x.conn = r.conn /\ x.ready = r.ready /\ x.torn = r.torn
                            /\ x.token = r.token /\ x.bot = r.bot /\ ~ x.created
                            /\ Range(x.todo) \subseteq Range(r.todo)
                            /\ ~ HeadIn(x, {"settle", "clear", "delete", "forget", "write"})
      BY <1>1, <1>2, PassesOn DEF HeadIn
  <2>2. th' = [th EXCEPT ![p] = x] /\ th \in [Procs -> Thread]
      BY <1>6 DEF Next1, Set, Inv, TypeInv
  <2> HIDE DEF x
  <2>3. th'[p] = x /\ \A q \in Procs \ {p} : th'[q] = th[q]
      BY <2>2
  <2>4. OthersAlike(p)
      BY <2>3 DEF OthersAlike, Alike
  <2>5. /\ made \in Nat /\ conns \subseteq 1..made /\ d \notin 0..made /\ d \notin conns
        /\ replaced \subseteq conns /\ DOMAIN pairing \subseteq conns \ replaced
      BY DEF Inv, TypeInv, Apart
  <2>6. made' = d /\ conns' = conns \cup {d}
      BY <1>6
  <2>7. d \in Nat /\ 1..made \subseteq 1..d /\ d \in 1..d /\ 0..made \subseteq 0..d /\ 0 \in 0..made
         /\ 0 \notin 1..made
      BY <2>5
  <2>8. DOMAIN pairing' = DOMAIN pairing \cup {d}
      BY <1>6
  <2>9. TypeInv'
    <3>1. Thread' = Thread /\ Object' = Object /\ Row' = Row
          BY DEF Thread, Object, Row
    <3>2. pairing' \in [DOMAIN pairing' -> Tokens \cup {None}]
      <4>1. pairing \in [DOMAIN pairing -> Tokens \cup {None}]
            BY DEF Inv, TypeInv
      <4>2. QED
            BY <1>2, <1>6, <2>8, <4>1
    <3>3. made' \in Nat /\ conns' \subseteq 1..made' /\ up \subseteq conns'
      <4>1. up \subseteq conns
            BY DEF Inv, TypeInv
      <4>2. QED
            BY <2>5, <2>6, <2>7, <4>1
    <3>4. th' \in [Procs -> Thread]
          BY <2>1, <2>2
    <3>5. QED
          BY <1>4, <3>1, <3>2, <3>3, <3>4 DEF Inv, TypeInv
  <2>10. ClashInv'
      BY <1>4, <2>1, <2>3, <2>4, ClashStays DEF Inv
  <2>11. \A q \in Procs : Waiting(th'[q]) <=> Waiting(th[q])
      BY <1>3, <2>1, <2>3
  <2>12. \A q \in Procs : Waiting(th[q]) => th'[q] = th[q] /\ q # p
      BY <1>3, <2>3
  <2>13. Apart'
    <3>1. replaced \subseteq conns' /\ DOMAIN pairing' \subseteq conns' \ replaced
          BY <1>6, <2>5, <2>8
    <3>2. ASSUME NEW o \in DOMAIN heap, heap[o].conn # 0
          PROVE  /\ heap[o].conn \in conns' \ (DOMAIN pairing' \cup replaced)
                 /\ \A u \in DOMAIN heap : heap[u].conn = heap[o].conn => u = o
      <4>1. /\ heap[o].conn \in conns \ (DOMAIN pairing \cup replaced)
            /\ \A u \in DOMAIN heap : heap[u].conn = heap[o].conn => u = o
            BY <3>2 DEF Inv, Apart
      <4>2. QED
            BY <2>5, <2>6, <2>8, <4>1
    <3>3. \A q \in Procs : th'[q].conn \in (0..made') \ DOMAIN pairing'
      <4>1. \A q \in Procs : th'[q].conn \in {0, th[q].conn}
            BY <2>1, <2>3
      <4>2. \A q \in Procs : th[q].conn \in (0..made) \ DOMAIN pairing
            BY DEF Inv, Apart
      <4>3. 0..made \subseteq 0..made' /\ 0 \in 0..made /\ 0 \notin DOMAIN pairing
            BY <2>5, <2>6, <2>7
      <4>4. QED
            BY <2>5, <2>8, <4>1, <4>2, <4>3
    <3>4. ASSUME NEW q \in Procs, Waiting(th'[q])
          PROVE  /\ th'[q].conn \in conns' \ replaced
                 /\ \A o \in DOMAIN heap : heap[o].conn # th'[q].conn
                 /\ \A u \in Procs \ {q} : th'[u].conn # th'[q].conn
      <4>1. th'[q] = th[q] /\ Waiting(th[q])
            BY <2>11, <2>12, <3>4
      <4>2. /\ th[q].conn \in conns \ replaced
            /\ \A o \in DOMAIN heap : heap[o].conn # th[q].conn
            /\ \A u \in Procs \ {q} : th[u].conn # th[q].conn
            BY <4>1 DEF Inv, Apart
      <4>3. th[q].conn # 0
            BY <2>5, <4>2
      <4>4. \A u \in Procs \ {q} : th'[u].conn # th[q].conn
            BY <2>1, <2>3, <4>2, <4>3
      <4>5. QED
            BY <2>6, <4>1, <4>2, <4>4
    <3>5. QED
          BY <1>4, <3>1, <3>2, <3>3, <3>4 DEF Apart, Waiting, HeadIn
  <2>14. Owned'
    <3>1. \A o \in DOMAIN heap : heap[o].conn # 0 =>
              bots[heap[o].token] = o \/ heap[o].token \in clash
          BY DEF Inv, Owned
    <3>2. ASSUME NEW c \in conns'
          PROVE  \/ c \in replaced \cup DOMAIN pairing'
                 \/ \E o \in DOMAIN heap : heap[o].conn = c
                 \/ \E q \in Procs : Waiting(th'[q]) /\ th'[q].conn = c
      <4>1. CASE c = d
            BY <2>8, <4>1
      <4>2. CASE c # d
        <5>1. \/ c \in replaced \cup DOMAIN pairing
              \/ \E o \in DOMAIN heap : heap[o].conn = c
              \/ \E q \in Procs : Waiting(th[q]) /\ th[q].conn = c
              BY <1>6, <4>2 DEF Inv, Owned
        <5>2. QED
              BY <2>8, <2>11, <2>12, <5>1
      <4>3. QED
            BY <4>1, <4>2
    <3>3. QED
          BY <1>4, <3>1, <3>2 DEF Owned, Waiting, HeadIn
  <2>15. RowsInv'
    <3>1. \A u \in Tokens : Agree(u) => Agree(u)'
          BY <1>4 DEF Agree, Registered
    <3>2. \A u \in Tokens : Pending(u) => Pending(u)'
      <4>1. ~ HeadIn(r, {"exists", "write", "forget"})
            BY <1>2 DEF HeadIn
      <4>2. QED
            BY <2>3, <4>1, PendingStays
    <3>3. QED
          BY <1>4, <3>1, <3>2 DEF Inv, RowsInv, Registered
  <2>16. ASSUME NEW q \in Procs PROVE InOrder(th[q])' /\ Keeps(th[q])' /\ Relies(th[q])'
    <3>1. CASE q = p
      <4>1. InOrder(th[p])'
            BY <1>4, <2>1, <2>3 DEF InOrder, HeadIn
      <4>2. Keeps(th[p])'
            BY <1>2, <1>3, <1>4, <1>6, <2>1, <2>3 DEF Keeps, Waiting, HeadIn
      <4>3. Relies(th[p])'
            BY <1>2, <1>4, <2>1, <2>3 DEF Relies, HeadIn
      <4>4. QED
            BY <3>1, <4>1, <4>2, <4>3
    <3>2. CASE q # p
      <4>1. th'[q] = th[q] /\ InOrder(th[q]) /\ Keeps(th[q]) /\ Relies(th[q])
            BY <2>3, <3>2 DEF Inv
      <4>2. InOrder(th[q])'
            BY <1>4, <4>1 DEF InOrder, HeadIn
      <4>3. Keeps(th[q])'
            BY <1>4, <1>6, <4>1 DEF Keeps, Waiting, HeadIn
      <4>4. Relies(th[q])'
            BY <1>4, <4>1 DEF Relies, HeadIn
      <4>5. QED
            BY <4>2, <4>3, <4>4
    <3>3. QED
          BY <3>1, <3>2
  <2>17. QED
      BY <2>9, <2>10, <2>13, <2>14, <2>15, <2>16 DEF Inv
<1>7. QED
      BY <1>5, <1>6 DEF NewConnection

LEMMA PairingSteps ==
    LET s == <<"pair">> \o Save
    IN /\ s \in Seq(Steps) /\ DOMAIN s = 1..3 /\ Len(s) = 3 /\ s # <<>>
       /\ s[1] = "pair" /\ s[2] = "exists" /\ s[3] = "write"
       /\ Range(s) = {"pair", "exists", "write"}
       /\ Orderly(s) /\ Preceded(s, UsesBot, Finds)
       /\ Range(s) \cap Rebinds = {}
<1> DEFINE s == <<"pair">> \o Save
<1>1. "pair" \in Steps /\ "exists" \in Steps /\ "write" \in Steps
      BY DEF Steps, Writes, MakesOrDeletes
<1>2. /\ <<"pair">> \in Seq(Steps) /\ Len(<<"pair">>) = 1 /\ <<"pair">>[1] = "pair"
      /\ Save \in Seq(Steps) /\ Len(Save) = 2 /\ Save[1] = "exists" /\ Save[2] = "write"
      BY <1>1 DEF Save
<1>3. s \in Seq(Steps) /\ Len(s) = 3 /\ s[1] = "pair" /\ s[2] = "exists" /\ s[3] = "write"
  <2>1. /\ s \in Seq(Steps) /\ Len(s) = Len(<<"pair">>) + Len(Save)
        /\ \A i \in 1..(Len(<<"pair">>) + Len(Save)) :
              s[i] = IF i <= Len(<<"pair">>) THEN <<"pair">>[i] ELSE Save[i - Len(<<"pair">>)]
      BY <1>2, ConcatProperties
  <2> HIDE DEF s
  <2>2. /\ Len(s) = 3
        /\ \A i \in 1..3 : s[i] = IF i <= 1 THEN <<"pair">>[i] ELSE Save[i - 1]
      BY <1>2, <2>1
  <2>3. s[1] = <<"pair">>[1]
      BY <2>2
  <2>4. s[2] = Save[1] /\ s[3] = Save[2]
      BY <2>2
  <2>5. QED
      BY <1>2, <2>1, <2>2, <2>3, <2>4
<1> HIDE DEF s
<1>4. DOMAIN s = 1..3 /\ s # <<>>
      BY <1>3, EmptySeq
<1>5. \A i \in DOMAIN s : (i = 1 \/ i = 2 \/ i = 3) /\ s[i] \in {"pair", "exists", "write"}
  <2>1. \A i \in 1..3 : i = 1 \/ i = 2 \/ i = 3
      OBVIOUS
  <2>2. QED
      BY <1>3, <1>4, <2>1
<1>6. Range(s) = {"pair", "exists", "write"}
  <2>1. 1 \in DOMAIN s /\ 2 \in DOMAIN s /\ 3 \in DOMAIN s
      BY <1>4
  <2>2. QED
      BY <1>3, <1>5, <2>1 DEF Range
<1>7. Chained(s)
  <2>1. ASSUME NEW i \in DOMAIN s
        PROVE  /\ s[i] \in DOMAIN Follows => i < Len(s) /\ s[i + 1] = Follows[s[i]]
               /\ s[i] \in {"write", "forget"} => i = Len(s)
               /\ i > 1 /\ s[i] \in Range(Follows) =>
                     s[i - 1] \in DOMAIN Follows /\ Follows[s[i - 1]] = s[i]
    <3>1. CASE i = 1
          BY <1>3, <3>1, FollowsFacts
    <3>2. CASE i = 2
          BY <1>3, <3>2, FollowsFacts
    <3>3. CASE i = 3
          BY <1>3, <3>3, FollowsFacts
    <3>4. QED
          BY <1>5, <3>1, <3>2, <3>3
  <2>2. QED
      BY <2>1 DEF Chained
<1>8. Orderly(s)
  <2>1. \A i \in DOMAIN s : s[i] \notin Takes \cup {"ready"} /\ s[i] \notin {"first"}
      BY <1>5 DEF Takes
  <2>2. QED
      BY <1>7, <2>1 DEF Orderly, NeverAfter
<1>9. Preceded(s, UsesBot, Finds)
  <2>1. s[1] \in Finds /\ s[1] \notin UsesBot
      BY <1>3 DEF Finds, UsesBot
  <2>2. ASSUME NEW j \in DOMAIN s, s[j] \in UsesBot PROVE \E i \in 1..(j - 1) : s[i] \in Finds
    <3>1. j = 2 \/ j = 3
          BY <1>5, <2>1, <2>2
    <3>2. 1 \in 1..(j - 1)
          BY <3>1
    <3>3. QED
          BY <2>1, <3>2
  <2>3. QED
      BY <2>2 DEF Preceded
<1>10. Range(s) \cap Rebinds = {}
      BY <1>6 DEF Rebinds
<1>11. QED
      BY <1>3, <1>4, <1>6, <1>8, <1>9, <1>10 DEF s

LEMMA OnPairedKeepsInv ==
    ASSUME Inv, NEW p \in Procs, OnPaired(p)
    PROVE  Inv'
<1> DEFINE s == <<"pair">> \o Save
<1>1. PICK c \in DOMAIN pairing, t \in Tokens :
          /\ ~ Busy(p) /\ pairing' = [d \in DOMAIN pairing \ {c} |-> pairing[d]]
          /\ up' = up \cup {c}
          /\ Set(p, [Idle EXCEPT !.todo = s, !.token = t, !.conn = c])
          /\ Join(p, {"pair"}, t)
      BY DEF OnPaired
<1>2. UNCHANGED <<rows, bots, heap, conns, made, replaced, starting, unsaved>>
      BY DEF OnPaired, storage, control
<1>3. /\ s \in Seq(Steps) /\ s # <<>> /\ s[1] = "pair" /\ DOMAIN s = 1..3
      /\ s[2] = "exists" /\ s[3] = "write" /\ Range(s) = {"pair", "exists", "write"}
      /\ Orderly(s) /\ Preceded(s, UsesBot, Finds) /\ Range(s) \cap Rebinds = {}
      BY PairingSteps
<1> HIDE DEF s
<1> DEFINE x == [Idle EXCEPT !.todo = s, !.token = t, !.conn = c]
<1>4. /\ th' = [th EXCEPT ![p] = x] /\ th[p].todo = <<>> /\ th \in [Procs -> Thread]
      BY <1>1 DEF Set, Busy, Inv, TypeInv
<1>5. /\ conns \subseteq 1..made /\ made \in Nat /\ up \subseteq conns
      /\ replaced \subseteq conns /\ DOMAIN pairing \subseteq conns \ replaced
      BY DEF Inv, TypeInv, Apart
<1>6. c \in conns /\ c \in 1..made /\ c \in Nat /\ c # 0 /\ c \notin replaced /\ 0 \notin conns
  <2>1. c \in conns /\ c \notin replaced
      BY <1>5
  <2>2. \A d \in 1..made : d \in Nat /\ d # 0
      OBVIOUS
  <2>3. QED
      BY <1>5, <2>1, <2>2
<1>7. /\ x.todo = s /\ x.token = t /\ x.conn = c /\ x.bot = 0 /\ x.created = FALSE
      /\ x.ready = FALSE /\ x.torn = FALSE /\ x.answer = "none" /\ x.found = FALSE
      /\ x.did = FALSE
      BY DEF Idle
<1>8. x \in Thread
  <2>1. Idle \in Thread
      BY EmptySeq DEF Idle, Thread, Answers
  <2>2. QED
      BY <1>3, <1>6, <2>1 DEF Thread
<1> HIDE DEF x
<1>9. th'[p] = x /\ \A q \in Procs \ {p} : th'[q] = th[q]
      BY <1>4
<1>10. OthersAlike(p)
      BY <1>9 DEF OthersAlike, Alike
<1>11. InOrder(x)
  <2>1. \A i \in DOMAIN s : s[i] = "pair" => i = 1
    <3>1. \A i \in 1..3 : i = 1 \/ i = 2 \/ i = 3
          OBVIOUS
    <3>2. QED
          BY <1>3, <3>1
  <2>2. QED
      BY <1>3, <1>6, <1>7, <2>1 DEF InOrder
<1>12. Waiting(x) /\ ~ Waiting(th[p])
      BY <1>3, <1>4, <1>7 DEF Waiting, HeadIn
<1>13. ClashInv' /\ clash \subseteq clash' /\ clash' \subseteq Tokens
  <2>1. {"pair"} \cap MakesOrDeletes # {} /\ {"pair"} \cap Writes # {}
      BY DEF MakesOrDeletes, Writes
  <2>2. QED
      BY <1>1, <1>7, <1>9, <1>10, <2>1, JoinsIn
<1>14. DOMAIN pairing' = DOMAIN pairing \ {c}
      BY <1>1
<1>15. TypeInv'
  <2>1. Thread' = Thread /\ Object' = Object /\ Row' = Row
      BY DEF Thread, Object, Row
  <2>2. pairing' \in [DOMAIN pairing' -> Tokens \cup {None}]
    <3>1. pairing \in [DOMAIN pairing -> Tokens \cup {None}]
          BY DEF Inv, TypeInv
    <3>2. QED
          BY <1>1, <1>14, <3>1
  <2>3. up' \subseteq conns
      BY <1>1, <1>5, <1>6
  <2>4. th' \in [Procs -> Thread]
      BY <1>4, <1>8
  <2>5. QED
      BY <1>2, <1>13, <2>1, <2>2, <2>3, <2>4 DEF Inv, TypeInv
<1>16. /\ \A o \in DOMAIN heap : heap[o].conn # c
       /\ \A q \in Procs : th[q].conn # c
      BY <1>6 DEF Inv, Apart
<1>17. Apart'
  <2>1. \A o \in DOMAIN heap : heap[o].conn # 0 =>
          /\ heap[o].conn \in conns \ (DOMAIN pairing' \cup replaced)
          /\ \A u \in DOMAIN heap : heap[u].conn = heap[o].conn => u = o
      BY <1>14 DEF Inv, Apart
  <2>2. \A q \in Procs : th'[q].conn \in (0..made) \ DOMAIN pairing'
    <3>1. \A q \in Procs : th[q].conn \in (0..made) \ DOMAIN pairing
          BY DEF Inv, Apart
    <3>2. c \in 0..made
          BY <1>5, <1>6
    <3>3. QED
          BY <1>7, <1>9, <1>14, <3>1, <3>2
  <2>3. ASSUME NEW q \in Procs, Waiting(th'[q])
        PROVE  /\ th'[q].conn \in conns \ replaced
               /\ \A o \in DOMAIN heap : heap[o].conn # th'[q].conn
               /\ \A u \in Procs \ {q} : th'[u].conn # th'[q].conn
    <3>1. CASE q = p
          BY <1>6, <1>7, <1>9, <1>16, <3>1
    <3>2. CASE q # p
      <4>1. th'[q] = th[q] /\ Waiting(th[q])
            BY <1>9, <2>3, <3>2
      <4>2. /\ th[q].conn \in conns \ replaced
            /\ \A o \in DOMAIN heap : heap[o].conn # th[q].conn
            /\ \A u \in Procs \ {q} : th[u].conn # th[q].conn
            BY <4>1 DEF Inv, Apart
      <4>3. th'[p].conn # th[q].conn
            BY <1>7, <1>9, <1>16
      <4>4. QED
            BY <1>9, <4>1, <4>2, <4>3
    <3>3. QED
          BY <3>1, <3>2
  <2>4. DOMAIN pairing' \subseteq conns \ replaced
      BY <1>5, <1>14
  <2>5. QED
      BY <1>2, <1>5, <2>1, <2>2, <2>3, <2>4 DEF Apart, Waiting, HeadIn
<1>18. Owned'
  <2>1. \A o \in DOMAIN heap : heap[o].conn # 0 =>
            bots[heap[o].token] = o \/ heap[o].token \in clash'
      BY <1>13 DEF Inv, Owned
  <2>2. ASSUME NEW d \in conns
        PROVE  \/ d \in replaced \cup DOMAIN pairing'
               \/ \E o \in DOMAIN heap : heap[o].conn = d
               \/ \E q \in Procs : Waiting(th'[q]) /\ th'[q].conn = d
    <3>1. CASE d = c
          BY <1>7, <1>9, <1>12, <3>1
    <3>2. CASE d # c
      <4>1. \/ d \in replaced \cup DOMAIN pairing
            \/ \E o \in DOMAIN heap : heap[o].conn = d
            \/ \E q \in Procs : Waiting(th[q]) /\ th[q].conn = d
            BY DEF Inv, Owned
      <4>2. \A q \in Procs : Waiting(th[q]) => th'[q] = th[q]
            BY <1>9, <1>12
      <4>3. QED
            BY <1>14, <3>2, <4>1, <4>2
    <3>3. QED
          BY <3>1, <3>2
  <2>3. QED
      BY <1>2, <2>1, <2>2 DEF Owned, Waiting, HeadIn
<1>19. RowsInv'
  <2>1. \A u \in Tokens : Agree(u) => Agree(u)'
      BY <1>2 DEF Agree, Registered
  <2>2. ~ HeadIn(th[p], {"exists", "write", "forget"})
      BY <1>4 DEF HeadIn
  <2>3. \A u \in Tokens : Pending(u) => Pending(u)'
      BY <1>9, <2>2, PendingStays
  <2>4. QED
      BY <1>2, <1>13, <2>1, <2>3 DEF Inv, RowsInv, Registered
<1>20. ASSUME NEW q \in Procs PROVE InOrder(th[q])' /\ Keeps(th[q])' /\ Relies(th[q])'
  <2>1. CASE q = p
    <3>1. InOrder(th[p])'
          BY <1>2, <1>9, <1>11 DEF InOrder, HeadIn
    <3>2. Keeps(th[p])'
          BY <1>2, <1>6, <1>7, <1>9, <1>12 DEF Keeps, Waiting, HeadIn
    <3>3. Relies(th[p])'
      <4>1. ~ HeadIn(x, {"settle", "clear", "delete", "forget", "write"})
            BY <1>3, <1>7 DEF HeadIn
      <4>2. QED
            BY <1>7, <1>9, <4>1 DEF Relies, HeadIn
    <3>4. QED
          BY <2>1, <3>1, <3>2, <3>3
  <2>2. CASE q # p
    <3>1. th'[q] = th[q] /\ InOrder(th[q]) /\ Keeps(th[q]) /\ Relies(th[q])
          BY <1>9, <2>2 DEF Inv
    <3>2. InOrder(th[q])'
          BY <1>2, <3>1 DEF InOrder, HeadIn
    <3>3. Keeps(th[q])'
          BY <1>2, <3>1 DEF Keeps, Waiting, HeadIn
    <3>4. Relies(th[q])'
          BY <1>2, <1>13, <3>1 DEF Relies, HeadIn
    <3>5. QED
          BY <3>2, <3>3, <3>4
  <2>3. QED
      BY <2>1, <2>2
<1>21. QED
      BY <1>13, <1>15, <1>17, <1>18, <1>19, <1>20 DEF Inv

LEMMA AppendPairedKeepsInv ==
    ASSUME Inv, NEW p \in Procs, AppendPaired(p)
    PROVE  Inv'
<1> DEFINE r == th[p]
           t == r.token
           c == r.conn
           b == IF Registered(t) THEN bots[t] ELSE Fresh
           old == IF Registered(t) THEN heap[b].conn ELSE 0
           new == [token |-> t, wid |-> c, conn |-> c,
                   conf |-> IF Registered(t) THEN heap[b].conf ELSE 0]
           y == [r EXCEPT !.bot = b]
           x == Pop(y)
<1>1. Busy(p) /\ At(p, "pair")
      BY DEF AppendPaired, At
<1>2. /\ r \in Thread /\ InOrder(r) /\ Relies(r) /\ t \in Tokens /\ r.todo # <<>>
      /\ r.todo[1] = "pair"
      BY <1>1, HeadIs DEF Busy
<1>3. /\ Waiting(r) /\ HeadIn(r, Writes)
      /\ HeadIn(r, {"settle", "pair", "logout", "clear", "delete", "forget"})
      /\ ~ HeadIn(r, {"exists", "write", "forget"}) /\ ~ r.created
      BY <1>2 DEF Waiting, HeadIn, Writes, MakesOrDeletes, InOrder
<1>4. IsMaking(r) /\ IsChanging(r)
      BY <1>2, <1>3, HeadMakes, HeadChanges
<1>5. /\ heap' = [u \in DOMAIN heap \cup {b} |-> IF u # b THEN heap[u] ELSE new]
      /\ bots' = [bots EXCEPT ![t] = b]
      /\ replaced' = IF old = 0 THEN replaced ELSE replaced \cup {old}
      /\ th' = [th EXCEPT ![p] = x]
      BY DEF AppendPaired, Set
<1>6. UNCHANGED <<rows, conns, up, pairing, made, starting, clash, unsaved>>
      BY DEF AppendPaired, control, history
<1>7. /\ heap \in [DOMAIN heap -> Object] /\ IsFiniteSet(DOMAIN heap)
      /\ DOMAIN heap \subseteq Nat \ {0} /\ bots \in [Tokens -> {0} \cup DOMAIN heap]
      /\ \A u \in Tokens : bots[u] # 0 => heap[bots[u]].token = u
      /\ th \in [Procs -> Thread] /\ made \in Nat /\ conns \subseteq 1..made
      BY DEF Inv, TypeInv
\* the bot
<1>8. /\ b \in Nat \ {0}
      /\ Registered(t) => b \in DOMAIN heap /\ heap[b].token = t /\ bots[t] = b
      /\ ~ Registered(t) => b \notin DOMAIN heap /\ bots[t] = 0
  <2>1. CASE Registered(t)
      BY <1>2, <1>7, <2>1 DEF Registered
  <2>2. CASE ~ Registered(t)
      BY <1>7, <2>2, FreshIsNew DEF Registered
  <2>3. QED
      BY <2>1, <2>2
<1> HIDE DEF b
\* its connections
<1>9. /\ c \in conns \ replaced /\ c \notin DOMAIN pairing /\ c # 0 /\ c \in Nat
      /\ \A o \in DOMAIN heap : heap[o].conn # c
      /\ \A q \in Procs \ {p} : th[q].conn # c
  <2>1. /\ c \in conns \ replaced /\ c \notin DOMAIN pairing
        /\ \A o \in DOMAIN heap : heap[o].conn # c
        /\ \A q \in Procs \ {p} : th[q].conn # c
      BY <1>3 DEF Inv, Apart
  <2>2. \A d \in 1..made : d \in Nat /\ d # 0
      OBVIOUS
  <2>3. QED
      BY <1>7, <2>1, <2>2
<1>10. old # 0 => /\ b \in DOMAIN heap /\ old = heap[b].conn
                  /\ old \in conns \ (DOMAIN pairing \cup replaced)
                  /\ \A o \in DOMAIN heap : heap[o].conn = old => o = b
      BY <1>8 DEF Inv, Apart
<1>11. b \in DOMAIN heap => old = heap[b].conn /\ heap[b].token = t /\ bots[t] = b
      BY <1>8
<1>12. new \in Object /\ new.token = t /\ new.conn = c
  <2>1. (IF Registered(t) THEN heap[b].conf ELSE 0) \in 0..1
    <3>1. CASE Registered(t)
          BY <1>7, <1>8, <3>1 DEF Object
    <3>2. CASE ~ Registered(t)
          BY <3>2
    <3>3. QED
          BY <3>1, <3>2
  <2>2. QED
      BY <1>2, <1>9, <2>1 DEF Object
<1> HIDE DEF old, new
<1>13. /\ DOMAIN heap' = DOMAIN heap \cup {b} /\ heap' \in [DOMAIN heap' -> Object]
       /\ heap'[b] = new /\ \A o \in DOMAIN heap : o # b => heap'[o] = heap[o]
       /\ \A o \in DOMAIN heap : heap'[o].token = heap[o].token
      BY <1>5, <1>7, <1>11, <1>12
<1>14. bots'[t] = b /\ \A u \in Tokens : u # t => bots'[u] = bots[u] /\ bots[u] # b
  <2>1. \A u \in Tokens : u # t => bots[u] # b
      BY <1>7, <1>8, <1>11
  <2>2. QED
      BY <1>2, <1>5, <1>7, <2>1
<1>15. replaced \subseteq replaced' /\ replaced' \subseteq replaced \cup {old} /\ (old # 0 => old \in replaced')
       /\ (old = 0 => replaced' = replaced)
      BY <1>5
\* the goroutine
<1>16. /\ x \in Thread /\ Moved(r, 1, x) /\ x.todo[1] = "exists" /\ x.todo # <<>>
       /\ x.token = t /\ x.bot = b /\ x.conn = c /\ x.created = FALSE
       /\ x.ready = r.ready /\ x.torn = r.torn
  <2>1. /\ y \in Thread /\ y.todo = r.todo /\ y.bot = b /\ y.token = t
        /\ y.conn = c /\ y.created = FALSE /\ y.ready = r.ready
        /\ y.torn = r.torn /\ y.answer = r.answer
    <3>1. y \in Thread /\ y.bot = b
          BY <1>2, <1>8 DEF Thread
    <3>2. /\ y.todo = r.todo /\ y.token = t /\ y.conn = c /\ y.created = r.created
          /\ y.ready = r.ready /\ y.torn = r.torn /\ y.answer = r.answer
          BY <1>2 DEF Thread
    <3>3. r.created = FALSE
          BY <1>2, <1>3 DEF Thread
    <3>4. QED
          BY <3>1, <3>2, <3>3
  <2> HIDE DEF y
  <2>2. Chained(y.todo)
      BY <1>2, <2>1 DEF InOrder, Orderly
  <2>3. "pair" \in DOMAIN Follows /\ Follows["pair"] = "exists"
      BY FollowsFacts
  <2>4. /\ Moved(y, 1, x) /\ x = [y EXCEPT !.todo = Rest(y.todo, 1)] /\ x.todo[1] = "exists"
    <3>1. y.todo # <<>> /\ y.todo[1] = "pair"
          BY <1>2, <2>1
    <3>2. QED
          BY <2>1, <2>2, <2>3, <3>1, FollowsOn
  <2> HIDE DEF x
  <2>5. x \in Thread /\ x.todo # <<>> /\ Moved(r, 1, x)
      BY <2>1, <2>4 DEF Moved
  <2>6. /\ x.token = y.token /\ x.bot = y.bot /\ x.conn = y.conn /\ x.created = y.created
        /\ x.ready = y.ready /\ x.torn = y.torn
      BY <2>1, <2>4 DEF Thread
  <2>7. QED
      BY <2>1, <2>4, <2>5, <2>6
<1> HIDE DEF x, y
<1>17. th'[p] = x /\ \A q \in Procs \ {p} : th'[q] = th[q]
      BY <1>5, <1>7
<1>18. OthersAlike(p)
      BY <1>17 DEF OthersAlike, Alike
<1>19. ~ Waiting(x) /\ HeadIn(x, {"exists", "write", "forget"})
       /\ ~ HeadIn(x, {"clear", "delete", "forget"}) /\ ~ HeadIn(x, {"forget"})
       /\ ~ HeadIn(x, {"write"})
      BY <1>16 DEF Waiting, HeadIn
<1>20. Lighter(r, x)
      BY <1>4, <1>16 DEF Lighter
<1>21. \A q \in Procs : Waiting(th'[q]) => q # p /\ th'[q] = th[q] /\ Waiting(th[q])
      BY <1>17, <1>19
<1>22. TypeInv'
  <2>1. Thread' = Thread /\ Object' = Object /\ Row' = Row
      BY DEF Thread, Object, Row
  <2>2. bots' \in [Tokens -> {0} \cup DOMAIN heap']
      BY <1>5, <1>7, <1>13
  <2>3. \A u \in Tokens : bots'[u] # 0 => heap'[bots'[u]].token = u
    <3> SUFFICES ASSUME NEW u \in Tokens, bots'[u] # 0 PROVE heap'[bots'[u]].token = u
        OBVIOUS
    <3>1. CASE u = t
          BY <1>12, <1>13, <1>14, <3>1
    <3>2. CASE u # t
      <4>1. bots'[u] = bots[u] /\ bots[u] # b /\ bots[u] \in DOMAIN heap
            BY <1>7, <1>14, <3>2
      <4>2. QED
            BY <1>7, <1>13, <4>1
    <3>3. QED
          BY <3>1, <3>2
  <2>4. IsFiniteSet(DOMAIN heap') /\ DOMAIN heap' \subseteq Nat \ {0}
      BY <1>7, <1>8, <1>13, FS_AddElement
  <2>5. starting \subseteq DOMAIN heap'
      BY <1>13 DEF Inv, TypeInv
  <2>6. th' \in [Procs -> Thread]
      BY <1>5, <1>7, <1>16
  <2>7. QED
      BY <1>6, <1>13, <2>1, <2>2, <2>3, <2>4, <2>5, <2>6 DEF Inv, TypeInv
<1>23. ClashInv'
      BY <1>6, <1>17, <1>18, <1>20, ClashStays DEF Inv
<1>24. Apart'
  <2>1. replaced \subseteq conns /\ DOMAIN pairing \subseteq conns \ replaced
      BY DEF Inv, Apart
  <2>2. replaced' \subseteq conns /\ DOMAIN pairing \subseteq conns \ replaced'
      BY <1>10, <1>15, <2>1
  <2>3. ASSUME NEW o \in DOMAIN heap', heap'[o].conn # 0
        PROVE  /\ heap'[o].conn \in conns \ (DOMAIN pairing \cup replaced')
               /\ \A u \in DOMAIN heap' : heap'[u].conn = heap'[o].conn => u = o
    <3>1. CASE o = b
      <4>1. heap'[o].conn = c
            BY <1>12, <1>13, <3>1
      <4>2. c # old
            BY <1>9, <1>10
      <4>3. \A u \in DOMAIN heap' : u # b => heap'[u].conn # c
            BY <1>9, <1>13
      <4>4. QED
            BY <1>9, <1>15, <3>1, <4>1, <4>2, <4>3
    <3>2. CASE o # b
      <4>1. o \in DOMAIN heap /\ heap'[o] = heap[o]
            BY <1>13, <3>2
      <4>2. /\ heap[o].conn \in conns \ (DOMAIN pairing \cup replaced)
            /\ \A u \in DOMAIN heap : heap[u].conn = heap[o].conn => u = o
            BY <2>3, <4>1 DEF Inv, Apart
      <4>3. heap[o].conn # old
            BY <1>10, <2>3, <3>2, <4>1
      <4>4. heap'[b].conn # heap[o].conn
            BY <1>9, <1>12, <1>13, <4>1
      <4>5. QED
            BY <1>13, <1>15, <4>1, <4>2, <4>3, <4>4
    <3>3. QED
          BY <3>1, <3>2
  <2>4. \A q \in Procs : th'[q].conn \in (0..made) \ DOMAIN pairing
    <3>1. \A q \in Procs : th[q].conn \in (0..made) \ DOMAIN pairing
          BY DEF Inv, Apart
    <3>2. \A q \in Procs : th'[q].conn = th[q].conn
          BY <1>16, <1>17
    <3>3. QED
          BY <3>1, <3>2
  <2>5. ASSUME NEW q \in Procs, Waiting(th'[q])
        PROVE  /\ th'[q].conn \in conns \ replaced'
               /\ \A o \in DOMAIN heap' : heap'[o].conn # th'[q].conn
               /\ \A u \in Procs \ {q} : th'[u].conn # th'[q].conn
    <3>1. q # p /\ th'[q] = th[q] /\ Waiting(th[q])
          BY <1>21, <2>5
    <3>2. /\ th[q].conn \in conns \ replaced
          /\ \A o \in DOMAIN heap : heap[o].conn # th[q].conn
          /\ \A u \in Procs \ {q} : th[u].conn # th[q].conn
          BY <3>1 DEF Inv, Apart
    <3>3. th[q].conn # old
      <4>1. th[q].conn # 0
            BY <1>7, <3>2
      <4>2. QED
            BY <1>10, <3>2, <4>1
    <3>4. \A o \in DOMAIN heap' : heap'[o].conn # th[q].conn
          BY <1>9, <1>12, <1>13, <3>1, <3>2
    <3>5. \A u \in Procs : th'[u].conn = th[u].conn
          BY <1>16, <1>17
    <3>6. QED
          BY <1>15, <3>1, <3>2, <3>3, <3>4, <3>5
  <2>6. QED
      BY <1>6, <2>2, <2>3, <2>4, <2>5 DEF Apart, Waiting, HeadIn
<1>25. Owned'
  <2>1. ASSUME NEW o \in DOMAIN heap', heap'[o].conn # 0
        PROVE  bots'[heap'[o].token] = o \/ heap'[o].token \in clash
    <3>1. CASE o = b
          BY <1>12, <1>13, <1>14, <3>1
    <3>2. CASE o # b
      <4>1. o \in DOMAIN heap /\ heap'[o] = heap[o] /\ heap[o].token \in Tokens
            BY <1>7, <1>13, <3>2 DEF Object
      <4>2. bots[heap[o].token] = o \/ heap[o].token \in clash
            BY <2>1, <4>1 DEF Inv, Owned
      <4>3. bots[t] # o
        <5>1. bots[t] \in {0, b}
              BY <1>8
        <5>2. QED
              BY <1>7, <3>2, <4>1, <5>1
      <4>4. QED
            BY <1>14, <4>1, <4>2, <4>3
    <3>3. QED
          BY <3>1, <3>2
  <2>2. ASSUME NEW d \in conns
        PROVE  \/ d \in replaced' \cup DOMAIN pairing
               \/ \E o \in DOMAIN heap' : heap'[o].conn = d
               \/ \E q \in Procs : Waiting(th'[q]) /\ th'[q].conn = d
    <3>1. \/ d \in replaced \cup DOMAIN pairing
          \/ \E o \in DOMAIN heap : heap[o].conn = d
          \/ \E q \in Procs : Waiting(th[q]) /\ th[q].conn = d
          BY DEF Inv, Owned
    <3>2. CASE d \in replaced \cup DOMAIN pairing
          BY <1>15, <3>2
    <3>3. ASSUME NEW o \in DOMAIN heap, heap[o].conn = d
          PROVE  d \in replaced' \/ \E u \in DOMAIN heap' : heap'[u].conn = d
      <4>1. CASE o = b
        <5>1. d = old
              BY <1>11, <3>3, <4>1
        <5>2. d # 0
              BY <1>7
        <5>3. QED
              BY <1>15, <5>1, <5>2
      <4>2. CASE o # b
            BY <1>13, <3>3, <4>2
      <4>3. QED
            BY <4>1, <4>2
    <3>4. ASSUME NEW q \in Procs, Waiting(th[q]), th[q].conn = d
          PROVE  \/ \E u \in DOMAIN heap' : heap'[u].conn = d
                 \/ Waiting(th'[q]) /\ th'[q].conn = d
      <4>1. CASE q = p
            BY <1>12, <1>13, <3>4, <4>1
      <4>2. CASE q # p
            BY <1>17, <3>4, <4>2
      <4>3. QED
            BY <4>1, <4>2
    <3>5. QED
          BY <3>1, <3>2, <3>3, <3>4
  <2>3. QED
      BY <1>6, <2>1, <2>2 DEF Owned, Waiting, HeadIn
<1>26. RowsInv'
  <2>1. ASSUME NEW u \in Tokens, u # t, Agree(u) PROVE Agree(u)'
    <3>1. bots'[u] = bots[u] /\ bots[u] # b
          BY <1>14, <2>1
    <3>2. bots[u] # 0 => heap'[bots[u]] = heap[bots[u]]
          BY <1>7, <1>13, <3>1
    <3>3. QED
          BY <1>6, <2>1, <3>1, <3>2 DEF Agree, Registered
  <2>2. \A u \in Tokens : Pending(u) => Pending(u)'
      BY <1>3, <1>17, PendingStays
  <2>3. ASSUME NEW u \in Tokens, u = t PROVE Pending(u)'
      BY <1>16, <1>17, <1>19, <2>3 DEF Pending, HeadIn
  <2>4. \A u \in Tokens : Registered(u)' <=> (u = t \/ Registered(u))
      BY <1>8, <1>14 DEF Registered
  <2>5. \A u \in Tokens \ (clash \cup unsaved) : Agree(u)' \/ Pending(u)'
    <3>1. \A u \in Tokens \ (clash \cup unsaved) : Agree(u) \/ Pending(u)
          BY DEF Inv, RowsInv
    <3>2. QED
          BY <2>1, <2>2, <2>3, <3>1
  <2>6. \A u \in Tokens \ clash : ~ Registered(u)' => rows[u] = None
    <3>1. \A u \in Tokens \ clash : ~ Registered(u) => rows[u] = None
          BY DEF Inv, RowsInv
    <3>2. QED
          BY <2>4, <3>1
  <2>7. QED
      BY <1>6, <2>5, <2>6 DEF Inv, RowsInv
<1>27. ASSUME NEW q \in Procs PROVE InOrder(th[q])' /\ Keeps(th[q])' /\ Relies(th[q])'
  <2>1. CASE q = p
    <3>1. InOrder(th[p])'
      <4>1. /\ Orderly(x.todo) /\ (x.ready \/ x.conn # 0 => Range(x.todo) \cap Rebinds = {})
            /\ \A i \in DOMAIN x.todo : x.todo[i] # "pair"
            /\ x.answer = "none"
        <5>1. x.bot # 0 /\ x.conn # 0 /\ r.conn # 0
              BY <1>8, <1>9, <1>16
        <5>2. QED
              BY <1>2, <1>16, <5>1, MovedOrder
      <4>2. x.bot \in DOMAIN heap' /\ x.bot # 0 /\ heap'[x.bot].token = x.token /\ x.conn # 0
            BY <1>8, <1>9, <1>12, <1>13, <1>16
      <4>3. QED
            BY <1>2, <1>16, <1>17, <4>1, <4>2 DEF InOrder, HeadIn
    <3>2. Keeps(th[p])'
      <4>1. x.conn = c /\ c \in conns /\ c # 0 /\ x.bot # 0 /\ heap'[x.bot].conn = c
            BY <1>8, <1>9, <1>12, <1>13, <1>16
      <4>2. QED
            BY <1>6, <1>17, <4>1 DEF Keeps, Waiting, HeadIn
    <3>3. Relies(th[p])'
          BY <1>14, <1>16, <1>17, <1>19 DEF Relies, HeadIn
    <3>4. QED
          BY <2>1, <3>1, <3>2, <3>3
  <2>2. CASE q # p
    <3>1. /\ th'[q] = th[q] /\ Alike(th[q], th'[q]) /\ InOrder(th[q]) /\ Keeps(th[q])
          /\ Relies(th[q]) /\ th[q] \in Thread
          BY <1>7, <1>17, <1>18, <2>2 DEF OthersAlike, Inv
    <3>2. InOrder(th[q])'
          BY <1>13, <3>1, OthersKeepOrder
    <3>3. Keeps(th[q])'
      <4> DEFINE s == th[q]
      <4> SUFFICES ASSUME s.todo # <<>>, ~ s.torn
          PROVE /\ s.conn # 0 => /\ s.conn \in conns
                                 /\ \/ s.conn \in replaced' \/ Waiting(s)
                                    \/ s.bot # 0 /\ heap'[s.bot].conn = s.conn
                /\ s.ready => s.bot # 0 /\ heap'[s.bot].conn # 0
          BY <1>6, <3>1 DEF Keeps, Waiting, HeadIn
      <4>1. /\ s.conn # 0 => /\ s.conn \in conns
                             /\ \/ s.conn \in replaced \/ Waiting(s)
                                \/ s.bot # 0 /\ heap[s.bot].conn = s.conn
            /\ s.ready => s.bot # 0 /\ heap[s.bot].conn # 0
            BY <3>1 DEF Keeps
      <4>2. s.bot \in {0} \cup DOMAIN heap
            BY <3>1 DEF InOrder
      <4>3. CASE s.bot = b
        <5>1. heap[s.bot].conn = old /\ heap'[s.bot].conn = c
              BY <1>8, <1>11, <1>12, <1>13, <4>2, <4>3
        <5>2. QED
              BY <1>9, <1>15, <4>1, <5>1
      <4>4. CASE s.bot # b
        <5>1. s.bot # 0 => heap'[s.bot] = heap[s.bot]
              BY <1>13, <4>2, <4>4
        <5>2. QED
              BY <1>15, <4>1, <5>1
      <4>5. QED
            BY <4>3, <4>4
    <3>4. Relies(th[q])'
      <4>1. \A u \in Tokens : bots'[u] # bots[u] => r.token = u /\ IsMaking(r)
            BY <1>4, <1>14
      <4>2. \A u \in Tokens : rows'[u] = rows[u]
            BY <1>6
      <4>3. \A o \in DOMAIN heap : heap'[o].conn # heap[o].conn =>
                heap'[o].conn = 0 \/ (heap[o].token = r.token /\ IsChanging(r))
            BY <1>4, <1>11, <1>13
      <4>4. QED
            BY <1>2, <1>6, <2>2, <3>1, <4>1, <4>2, <4>3, OthersRely DEF Inv
    <3>5. QED
          BY <3>2, <3>3, <3>4
  <2>3. QED
      BY <2>1, <2>2
<1>28. QED
      BY <1>22, <1>23, <1>24, <1>25, <1>26, <1>27 DEF Inv

(***************************************************************************)
(* The start of the program.                                               *)
(***************************************************************************)
Distinct(r) == \A t, u \in Tokens : r[t] # None /\ r[u] # None /\ r[t].wid = r[u].wid => t = u

\* the objects that are loaded, numbered by wid
LEMMA LoadedIsInjective ==
    ASSUME NEW r \in [Tokens -> Row \cup {None}], Distinct(r)
    PROVE  /\ Loaded(r) \in [Tokens -> 0..(1 + Cardinality(Tokens))]
           /\ \A t \in Tokens : Loaded(r)[t] = 0 <=> r[t] = None
           /\ \A t, u \in Tokens : Loaded(r)[t] = Loaded(r)[u] /\ Loaded(r)[t] # 0 => t = u
<1> DEFINE Below(t) == {u \in Tokens : r[u] # None /\ r[u].wid < r[t].wid}
<1>1. /\ Cardinality(Tokens) \in Nat
      /\ \A t \in Tokens : /\ IsFiniteSet(Below(t)) /\ Cardinality(Below(t)) \in Nat
                           /\ Cardinality(Below(t)) <= Cardinality(Tokens)
  <2>1. \A t \in Tokens : /\ IsFiniteSet(Below(t))
                          /\ Cardinality(Below(t)) <= Cardinality(Tokens)
      BY ControlAssumption, FS_Subset
  <2>2. QED
      BY <2>1, ControlAssumption, FS_CardinalityType
<1>2. \A t \in Tokens : Loaded(r)[t] = IF r[t] = None THEN 0 ELSE 1 + Cardinality(Below(t))
      BY DEF Loaded
<1>3. ASSUME NEW t \in Tokens, NEW u \in Tokens, r[t] # None, r[u] # None, r[t].wid < r[u].wid
      PROVE  Cardinality(Below(t)) # Cardinality(Below(u))
  <2>1. r[t].wid \in Nat /\ r[u].wid \in Nat
      BY <1>3 DEF Row
  <2>2. \A v \in Tokens : r[v] # None => r[v].wid \in Nat
      BY DEF Row
  <2>3. Below(t) \subseteq Below(u)
      BY <1>3, <2>1, <2>2
  <2>4. t \in Below(u) /\ t \notin Below(t)
      BY <1>3, <2>1
  <2> HIDE DEF Below
  <2>5. Below(t) # Below(u)
      BY <2>4
  <2>6. QED
      BY <1>1, <2>3, <2>5, FS_Subset
<1> HIDE DEF Below
<1>4. ASSUME NEW t \in Tokens, NEW u \in Tokens, Loaded(r)[t] = Loaded(r)[u], Loaded(r)[t] # 0
      PROVE  t = u
  <2>1. r[t] # None /\ r[u] # None /\ Cardinality(Below(t)) = Cardinality(Below(u))
      BY <1>1, <1>2, <1>4
  <2>2. r[t].wid \in Nat /\ r[u].wid \in Nat
      BY <2>1 DEF Row
  <2>3. ~ (r[t].wid < r[u].wid) /\ ~ (r[u].wid < r[t].wid)
      BY <1>3, <2>1
  <2>4. r[t].wid = r[u].wid
      BY <2>2, <2>3
  <2>5. QED
      BY <2>1, <2>4 DEF Distinct
<1>5. Loaded(r) \in [Tokens -> 0..(1 + Cardinality(Tokens))]
  <2>1. \A t \in Tokens : Loaded(r)[t] \in 0..(1 + Cardinality(Tokens))
      BY <1>1, <1>2
  <2>2. Loaded(r) = [t \in Tokens |-> Loaded(r)[t]]
      BY DEF Loaded
  <2>3. QED
      BY <2>1, <2>2
<1>6. \A t \in Tokens : Loaded(r)[t] = 0 <=> r[t] = None
      BY <1>1, <1>2
<1>7. QED
      BY <1>4, <1>5, <1>6

LEMMA HeapIsLoaded ==
    ASSUME NEW r \in [Tokens -> Row \cup {None}], Distinct(r)
    PROVE  /\ IsFiniteSet(DOMAIN HeapOf(r)) /\ DOMAIN HeapOf(r) \subseteq Nat \ {0}
           /\ HeapOf(r) \in [DOMAIN HeapOf(r) -> Object]
           /\ Loaded(r) \in [Tokens -> {0} \cup DOMAIN HeapOf(r)]
           /\ \A o \in DOMAIN HeapOf(r) : HeapOf(r)[o].conn = 0
           /\ \A t \in Tokens : Loaded(r)[t] = 0 <=> r[t] = None
           /\ \A t \in Tokens : Loaded(r)[t] # 0 =>
                 /\ HeapOf(r)[Loaded(r)[t]].token = t
                 /\ r[t] = [wid |-> HeapOf(r)[Loaded(r)[t]].wid, conf |-> HeapOf(r)[Loaded(r)[t]].conf]
<1> DEFINE l == Loaded(r)
           h == HeapOf(r)
           D == {l[t] : t \in Tokens} \ {0}
<1> DEFINE m == 1 + Cardinality(Tokens)
<1>1. /\ l \in [Tokens -> 0..m] /\ \A t \in Tokens : l[t] = 0 <=> r[t] = None
      /\ \A t, u \in Tokens : l[t] = l[u] /\ l[t] # 0 => t = u
      BY LoadedIsInjective
<1>2. h = [o \in D |-> LET t == CHOOSE u \in Tokens : l[u] = o
                       IN [token |-> t, wid |-> r[t].wid, conf |-> r[t].conf, conn |-> 0]]
      BY DEF HeapOf
<1> HIDE DEF l, h
<1>3. DOMAIN h = D /\ D \subseteq 1..m /\ m \in Nat
  <2>1. m \in Nat
      BY ControlAssumption, FS_CardinalityType
  <2> HIDE DEF m
  <2>2. \A i \in 0..m : i # 0 => i \in 1..m
      BY <2>1
  <2>3. QED
      BY <1>1, <1>2, <2>1, <2>2
<1> HIDE DEF m
<1>4. IsFiniteSet(D) /\ D \subseteq Nat \ {0}
  <2>1. IsFiniteSet(1..m) /\ 1..m \subseteq Nat \ {0}
      BY <1>3, 1 \in Int, m \in Int, FS_Interval
  <2>2. QED
      BY <1>3, <2>1, FS_Subset
<1>5. ASSUME NEW t \in Tokens, l[t] # 0
      PROVE  /\ l[t] \in D /\ h[l[t]] = [token |-> t, wid |-> r[t].wid, conf |-> r[t].conf, conn |-> 0]
             /\ r[t] \in Row
  <2>1. l[t] \in D
      BY <1>5
  <2>2. (CHOOSE u \in Tokens : l[u] = l[t]) = t
      BY <1>1, <1>5
  <2>3. r[t] \in Row
      BY <1>1, <1>5
  <2>4. QED
      BY <1>2, <2>1, <2>2, <2>3
<1>6. ASSUME NEW t \in Tokens, l[t] # 0
      PROVE  /\ h[l[t]] \in Object /\ h[l[t]].conn = 0 /\ h[l[t]].token = t
             /\ r[t] = [wid |-> h[l[t]].wid, conf |-> h[l[t]].conf]
  <2>1. /\ h[l[t]] = [token |-> t, wid |-> r[t].wid, conf |-> r[t].conf, conn |-> 0]
        /\ r[t] \in [wid : Nat, conf : 0..1]
      BY <1>5, <1>6 DEF Row
  <2>2. r[t].wid \in Nat /\ r[t].conf \in 0..1 /\ r[t] = [wid |-> r[t].wid, conf |-> r[t].conf]
      BY <2>1
  <2>3. h[l[t]].wid = r[t].wid /\ h[l[t]].conf = r[t].conf
      BY <2>1
  <2>4. h[l[t]] \in Object /\ h[l[t]].conn = 0 /\ h[l[t]].token = t
      BY <2>1, <2>2 DEF Object
  <2>5. QED
      BY <2>2, <2>3, <2>4
<1>7. \A o \in D : \E t \in Tokens : l[t] # 0 /\ o = l[t]
      OBVIOUS
<1> HIDE DEF D
<1>8. \A o \in D : h[o] \in Object /\ h[o].conn = 0
      BY <1>6, <1>7
<1>9. h \in [D -> Object]
  <2>1. h = [o \in D |-> h[o]]
      BY <1>2, <1>3
  <2>2. QED
      BY <1>8, <2>1
<1>10. l \in [Tokens -> {0} \cup D]
      BY <1>1, <1>5
<1>11. QED
      BY <1>1, <1>3, <1>4, <1>6, <1>8, <1>9, <1>10 DEF l, h

\* only the rows are left
Restarted ==
    /\ rows \in [Tokens -> Row \cup {None}] /\ Distinct(rows)
    /\ bots = Loaded(rows) /\ heap = HeapOf(rows) /\ starting = DOMAIN HeapOf(rows)
    /\ conns = {} /\ up = {} /\ pairing = <<>> /\ made \in Nat
    /\ th = [p \in Procs |-> Idle]
    /\ clash = {} /\ unsaved = {} /\ replaced = {}

LEMMA IdleIsInOrder ==
    /\ Idle \in Thread /\ Idle.todo = <<>> /\ Idle.bot = 0 /\ Idle.conn = 0
    /\ Idle.created = FALSE /\ Idle.ready = FALSE /\ Idle.answer = "none"
    /\ InOrder(Idle) /\ Keeps(Idle) /\ Relies(Idle) /\ ~ Waiting(Idle)
    /\ ~ IsMaking(Idle)
<1>1. /\ Idle.todo = <<>> /\ Idle.bot = 0 /\ Idle.conn = 0
      /\ Idle.created = FALSE /\ Idle.ready = FALSE /\ Idle.answer = "none"
      BY DEF Idle
<1>2. Idle \in Thread
      BY EmptySeq DEF Idle, Thread, Answers
<1>3. Ended(Idle, Idle) /\ Idle.answer # "panic"
      BY <1>1, <1>2 DEF Ended
<1>4. QED
      BY <1>1, <1>2, <1>3, EndedIs DEF Relies

LEMMA RestartedIsInv ==
    Restarted => Inv
<1> SUFFICES ASSUME Restarted PROVE Inv
    OBVIOUS
<1>1. /\ rows \in [Tokens -> Row \cup {None}] /\ Distinct(rows)
      /\ bots = Loaded(rows) /\ heap = HeapOf(rows) /\ starting = DOMAIN heap
      /\ conns = {} /\ up = {} /\ pairing = <<>> /\ made \in Nat
      /\ th = [p \in Procs |-> Idle]
      /\ clash = {} /\ unsaved = {} /\ replaced = {}
      BY DEF Restarted
<1>2. /\ IsFiniteSet(DOMAIN heap) /\ DOMAIN heap \subseteq Nat \ {0}
      /\ heap \in [DOMAIN heap -> Object] /\ bots \in [Tokens -> {0} \cup DOMAIN heap]
      /\ \A o \in DOMAIN heap : heap[o].conn = 0
      /\ \A t \in Tokens : bots[t] = 0 <=> rows[t] = None
      /\ \A t \in Tokens : bots[t] # 0 =>
            /\ heap[bots[t]].token = t
            /\ rows[t] = [wid |-> heap[bots[t]].wid, conf |-> heap[bots[t]].conf]
  <2>1. rows \in [Tokens -> Row \cup {None}] /\ Distinct(rows)
      BY <1>1
  <2>2. /\ IsFiniteSet(DOMAIN HeapOf(rows)) /\ DOMAIN HeapOf(rows) \subseteq Nat \ {0}
        /\ HeapOf(rows) \in [DOMAIN HeapOf(rows) -> Object]
        /\ Loaded(rows) \in [Tokens -> {0} \cup DOMAIN HeapOf(rows)]
        /\ \A o \in DOMAIN HeapOf(rows) : HeapOf(rows)[o].conn = 0
        /\ \A t \in Tokens : Loaded(rows)[t] = 0 <=> rows[t] = None
        /\ \A t \in Tokens : Loaded(rows)[t] # 0 =>
              /\ HeapOf(rows)[Loaded(rows)[t]].token = t
              /\ rows[t] = [wid |-> HeapOf(rows)[Loaded(rows)[t]].wid,
                            conf |-> HeapOf(rows)[Loaded(rows)[t]].conf]
      BY <2>1, HeapIsLoaded
  <2>3. heap = HeapOf(rows) /\ bots = Loaded(rows)
      BY <1>1
  <2>4. QED
      BY <2>2, <2>3, Zenon
<1>3. \A p \in Procs : th[p] = Idle
      BY <1>1
<1>4. DOMAIN pairing = {} /\ pairing \in [DOMAIN pairing -> Tokens \cup {None}]
      BY <1>1
<1>5. TypeInv
  <2>1. th \in [Procs -> Thread]
      BY <1>1, IdleIsInOrder
  <2>2. QED
      BY <1>1, <1>2, <1>4, <2>1 DEF TypeInv
<1>6. ClashInv
      BY <1>3, IdleIsInOrder DEF ClashInv
<1>7. Apart
      BY <1>1, <1>2, <1>3, <1>4, IdleIsInOrder DEF Apart
<1>8. Owned
      BY <1>1, <1>2 DEF Owned
<1>9. RowsInv
  <2>1. \A t \in Tokens : ~ Registered(t) => rows[t] = None
      BY <1>2 DEF Registered
  <2>2. \A t \in Tokens : Agree(t)
      BY <1>2 DEF Agree, Registered
  <2>3. QED
      BY <1>1, <2>1, <2>2 DEF RowsInv, Distinct
<1>10. \A p \in Procs : InOrder(th[p]) /\ Keeps(th[p]) /\ Relies(th[p])
      BY <1>3, IdleIsInOrder
<1>11. QED
      BY <1>5, <1>6, <1>7, <1>8, <1>9, <1>10 DEF Inv

LEMMA InitIsInv ==
    Init => Inv
<1> SUFFICES ASSUME Init PROVE Inv
    OBVIOUS
<1>1. PICK wid \in Injection(Stored, Phones) :
          rows = [t \in Tokens |-> IF t \in Stored THEN [wid |-> wid[t], conf |-> 0] ELSE None]
      BY DEF Init
<1>2. /\ wid \in [Stored -> Phones] /\ Stored \subseteq Tokens
      /\ \A t, u \in Stored : wid[t] = wid[u] => t = u
      BY ControlAssumption DEF Injection, IsInjective
<1>3. Phones \subseteq Nat
  <2>1. IsFiniteSet(Stored)
      BY ControlAssumption, FS_Subset
  <2>2. Cardinality(Stored) \in Nat /\ MaxConns \in Nat
      BY <2>1, FS_CardinalityType, ControlAssumption
  <2>3. QED
      BY <2>2 DEF Phones
<1>4. /\ \A t \in Stored : rows[t] = [wid |-> wid[t], conf |-> 0] /\ rows[t] \in Row
      /\ \A t \in Tokens \ Stored : rows[t] = None
  <2>1. \A t \in Stored : wid[t] \in Nat
      BY <1>2, <1>3
  <2>2. \A n \in Nat : [wid |-> n, conf |-> 0] \in Row
      BY DEF Row
  <2>3. QED
      BY <1>1, <1>2, <2>1, <2>2
<1>5. rows \in [Tokens -> Row \cup {None}]
      BY <1>1, <1>4
<1>6. Distinct(rows)
  <2>1. ASSUME NEW t \in Stored PROVE rows[t].wid = wid[t]
    <3>1. rows[t] = [wid |-> wid[t], conf |-> 0]
          BY <1>4
    <3>2. QED
          BY <3>1
  <2>2. \A t \in Tokens : rows[t] # None => t \in Stored
      BY <1>4
  <2>3. QED
      BY <1>2, <2>1, <2>2 DEF Distinct
<1>7. Restarted
      BY <1>5, <1>6 DEF Init, Restarted
<1>8. QED
      BY <1>7, RestartedIsInv

LEMMA RebootKeepsInv ==
    Inv /\ Reboot => Inv'
<1>1. Inv /\ Reboot => Restarted'
  <2> SUFFICES ASSUME Inv, Reboot PROVE Restarted'
      OBVIOUS
  <2>1. /\ rows \in [Tokens -> Row \cup {None}] /\ Distinct(rows) /\ made \in Nat
      BY DEF Inv, TypeInv, RowsInv, Distinct
  <2>2. /\ bots' = Loaded(rows) /\ heap' = HeapOf(rows) /\ starting' = DOMAIN HeapOf(rows)
        /\ conns' = {} /\ up' = {} /\ pairing' = <<>> /\ th' = [p \in Procs |-> Idle]
        /\ clash' = {} /\ unsaved' = {} /\ replaced' = {}
        /\ rows' = rows /\ made' = made
      BY DEF Reboot
  <2>3. QED
      BY <2>1, <2>2 DEF Restarted, Distinct, Row
<1>2. Restarted' => Inv'
      BY RestartedIsInv, PTL
<1>3. QED
      BY <1>1, <1>2

(***************************************************************************)
(* All steps.                                                              *)
(***************************************************************************)
LEMMA StepKeepsInv ==
    ASSUME Inv, NEW p \in Procs, Step(p)
    PROVE  Inv'
<1>1. CASE Reading(p)
      BY <1>1, ReadingKeepsInv
<1>2. CASE Bot(p) \/ Lookup(p)
      BY <1>2, BotKeepsInv
<1>3. CASE First(p)
      BY <1>3, FirstKeepsInv
<1>4. CASE Update(p) \/ Toggle(p)
      BY <1>4, UpdateKeepsInv
<1>5. CASE Create(p)
      BY <1>5, CreateKeepsInv
<1>6. CASE Exists(p)
      BY <1>6, ExistsKeepsInv
<1>7. CASE Write(p)
      BY <1>7, WriteKeepsInv
<1>8. CASE Logout(p)
      BY <1>8, LogoutKeepsInv
<1>9. CASE DeleteRow(p)
      BY <1>9, DeleteRowKeepsInv
<1>10. CASE Forget(p)
      BY <1>10, ForgetKeepsInv
<1>11. CASE Start(p)
      BY <1>11, StartKeepsInv
<1>12. CASE Stop(p)
      BY <1>12, StopKeepsInv
<1>13. CASE NewConnection(p)
      BY <1>13, NewConnectionKeepsInv
<1>14. CASE AppendPaired(p)
      BY <1>14, AppendPairedKeepsInv
<1>15. QED
      BY <1>1, <1>2, <1>3, <1>4, <1>5, <1>6, <1>7, <1>8, <1>9, <1>10, <1>11, <1>12,
         <1>13, <1>14 DEF Step, Reading

LEMMA UnchangedKeepsInv ==
    ASSUME Inv, UNCHANGED vars
    PROVE  Inv'
<1>1. UNCHANGED <<rows, bots, heap, conns, up, pairing, starting, th, made, clash, unsaved, replaced>>
      BY DEF vars
<1>2. TypeInv' /\ ClashInv'
      BY <1>1 DEF Inv, TypeInv, ClashInv, IsMaking, IsChanging, InUse, HeadIn, Thread, Object, Row
<1>3. Apart' /\ Owned'
      BY <1>1 DEF Inv, Apart, Owned, Waiting, HeadIn
<1>4. RowsInv'
      BY <1>1 DEF Inv, RowsInv, Agree, Pending, Registered, HeadIn
<1>5. \A q \in Procs : InOrder(th[q])' /\ Keeps(th[q])' /\ Relies(th[q])'
      BY <1>1 DEF Inv, InOrder, Keeps, Relies, Waiting, HeadIn
<1>6. QED
      BY <1>2, <1>3, <1>4, <1>5 DEF Inv

LEMMA NextKeepsInv ==
    Inv /\ [Next]_vars => Inv'
<1> SUFFICES ASSUME Inv, [Next]_vars PROVE Inv'
    OBVIOUS
<1>1. ASSUME NEW p \in Procs, NEW route \in RoutesOf[p], NEW t \in Tokens, Begin(p, route, t)
      PROVE  Inv'
      BY <1>1, BeginKeepsInv
<1>2. ASSUME NEW p \in Procs, Step(p) PROVE Inv'
      BY <1>2, StepKeepsInv
<1>3. ASSUME NEW p \in Procs, Initialize(p) PROVE Inv'
      BY <1>3, InitializeKeepsInv
<1>4. ASSUME NEW p \in Procs, OnPaired(p) PROVE Inv'
      BY <1>4, OnPairedKeepsInv
<1>5. CASE Drop \/ Return
      BY <1>5, UpKeepsInv
<1>6. CASE Reboot
      BY <1>6, RebootKeepsInv
<1>7. CASE UNCHANGED vars
      BY <1>7, UnchangedKeepsInv
<1>8. QED
      BY <1>1, <1>2, <1>3, <1>4, <1>5, <1>6, <1>7 DEF Next

LEMMA Invariance ==
    Spec => []Inv
<1>1. Init => Inv
      BY InitIsInv
<1>2. Inv /\ [Next]_vars => Inv'
      BY NextKeepsInv
<1>3. QED
      BY <1>1, <1>2, PTL DEF Spec

\* A step that changes the count is the beginning of a request.
LEMMA OnlyBeginCounts ==
    ASSUME [Next]_vars, begun' # begun
    PROVE  \E p \in Procs : \E route \in RoutesOf[p], t \in Tokens : Begin(p, route, t)
<1>1. ~ UNCHANGED vars /\ ~ (Drop \/ Return \/ Reboot)
      BY DEF vars, Drop, Return, Reboot, control
<1>2. ASSUME NEW p \in Procs, Initialize(p) \/ OnPaired(p) PROVE FALSE
      BY <1>2 DEF Initialize, OnPaired, control
<1>3. ASSUME NEW p \in Procs, Step(p) PROVE FALSE
  <2>1. ~ (Reading(p) \/ First(p))
      BY DEF Reading, CheckInputs, Ask, Ready, Connection, Client, Request, Read, Raw,
             Call, Each, Clear, First
  <2>2. CASE \/ Bot(p) \/ Lookup(p) \/ Update(p) \/ Create(p) \/ Toggle(p) \/ Exists(p)
             \/ Write(p) \/ Logout(p) \/ DeleteRow(p) \/ Forget(p) \/ Start(p) \/ Stop(p)
             \/ NewConnection(p) \/ AppendPaired(p)
    <3>1. UNCHANGED control
          BY <2>2 DEF Bot, Lookup, Update, Create, Toggle, Exists, Write, Logout, DeleteRow,
                      Forget, Start, Stop, NewConnection, AppendPaired
    <3>2. QED
          BY <3>1 DEF control
  <2>3. QED
      BY <1>3, <2>1, <2>2 DEF Step, Reading
<1>4. QED
      BY <1>1, <1>2, <1>3 DEF Next

\* Begin is refused once MaxRequests have begun.
Counted == begun \in 0..MaxRequests

LEMMA BegunIsBounded ==
    Spec => []Counted
<1>1. ASSUME Counted, [Next]_vars PROVE Counted'
  <2>1. ASSUME NEW p \in Procs, NEW route, NEW t, Begin(p, route, t) PROVE Counted'
      BY <1>1, <2>1, ControlAssumption DEF Begin, Counted
  <2>2. QED
      BY <1>1, <2>1, OnlyBeginCounts DEF Counted
<1>2. Init => Counted
      BY ControlAssumption DEF Init, Counted
<1>3. QED
      BY <1>1, <1>2, PTL DEF Spec

(***************************************************************************)
(* Requests that are refused.  What has been sent or changed leaves no     *)
(* test in the rest of the route.                                          *)
(***************************************************************************)
Tested(r) ==
    /\ NeverAfter(r.todo, Marks, Tests)
    /\ r.did => Range(r.todo) \cap Tests = {}
    /\ r.answer = "refused" => ~ r.did

AllTested == \A p \in Procs : Tested(th[p])

\* y is r with what its first step has found; it has sent or changed something
\* only if that step is one of Marks
Goes(r, y) == /\ y \in Thread /\ y.todo = r.todo /\ y.answer = r.answer
              /\ y.did = r.did \/ HeadIn(r, Marks)

LEMMA AnsweredTested ==
    ASSUME NEW y \in Thread, NEW a \in Answers, a = "refused" => ~ y.did
    PROVE  Tested(Answered(y, a))
<1> DEFINE x == Answered(y, a)
<1>1. x.todo = <<>> /\ x.answer = a
      BY AnsweredEnds DEF Ended
<1>2. x.did = y.did
      BY DEF Answered, Idle
<1> HIDE DEF x
<1>3. DOMAIN x.todo = {} /\ Range(x.todo) = {}
      BY <1>1 DEF Range
<1>4. NeverAfter(x.todo, Marks, Tests)
      BY <1>3 DEF NeverAfter
<1>5. QED
      BY <1>1, <1>2, <1>3, <1>4 DEF Tested, x

LEMMA RestNeverAfter ==
    ASSUME NEW s \in Seq(Steps), NEW n \in 1..Len(s), NEW first, NEW later,
           NeverAfter(s, first, later)
    PROVE  NeverAfter(Rest(s, n), first, later)
<1> SUFFICES ASSUME NEW i \in DOMAIN Rest(s, n), NEW j \in DOMAIN Rest(s, n), i < j,
                    Rest(s, n)[i] \in first
             PROVE  Rest(s, n)[j] \notin later
    BY DEF NeverAfter
<1>1. /\ DOMAIN Rest(s, n) = 1..(Len(s) - n) /\ DOMAIN s = 1..Len(s) /\ Len(s) \in Nat
      /\ \A k \in 1..(Len(s) - n) : Rest(s, n)[k] = s[k + n]
      BY RestType
<1>2. Rest(s, n)[i] = s[i + n] /\ Rest(s, n)[j] = s[j + n]
      BY <1>1
<1>3. i + n \in DOMAIN s /\ j + n \in DOMAIN s /\ i + n < j + n
      BY <1>1
<1>4. QED
      BY <1>2, <1>3 DEF NeverAfter

LEMMA PopTested ==
    ASSUME NEW r \in Thread, r.todo # <<>>, r.answer = "none", Tested(r), NEW y, Goes(r, y)
    PROVE  Tested(Pop(y))
<1>1. /\ y \in Thread /\ y.todo = r.todo /\ y.answer = "none"
      /\ y.did = r.did \/ HeadIn(r, Marks)
      BY DEF Goes
<1>2. /\ y.todo \in Seq(Steps) /\ 1 \in 1..Len(y.todo)
      /\ Pop(y) = IF Rest(y.todo, 1) = <<>> THEN Answered(y, "done")
                  ELSE [y EXCEPT !.todo = Rest(y.todo, 1)]
      BY <1>1, FirstStep
<1>3. CASE Pop(y) = Answered(y, "done")
  <2>1. "done" \in Answers /\ "done" # "refused"
      BY DEF Answers
  <2>2. QED
      BY <1>1, <1>3, <2>1, AnsweredTested
<1>4. CASE Pop(y) = [y EXCEPT !.todo = Rest(y.todo, 1)]
  <2> DEFINE x == Pop(y)
  <2>1. x.todo = Rest(r.todo, 1) /\ x.answer = "none" /\ x.did = y.did
      BY <1>1, <1>4 DEF Thread
  <2> HIDE DEF x
  <2>2. NeverAfter(r.todo, Marks, Tests)
      BY DEF Tested
  <2>3. NeverAfter(x.todo, Marks, Tests)
      BY <1>1, <1>2, <2>1, <2>2, RestNeverAfter
  <2>4. r.did => Range(x.todo) \cap Tests = {}
      BY <1>1, <1>2, <2>1, RestRange DEF Tested
  <2>5. HeadIn(r, Marks) => Range(x.todo) \cap Tests = {}
      BY <1>1, <1>2, <2>1, <2>2, RestAvoids DEF HeadIn
  <2>6. QED
      BY <1>1, <2>1, <2>3, <2>4, <2>5 DEF Tested, x
<1>5. QED
      BY <1>2, <1>3, <1>4

\* the request of p becomes x; others are at most torn
LEMMA OneGoesOn ==
    ASSUME Inv, AllTested, NEW p \in Procs, NEW x, Tested(x),
           Set(p, x) \/ \E b : Tear(p, x, b)
    PROVE  AllTested'
<1>1. th \in [Procs -> Thread]
      BY DEF Inv, TypeInv
<1>2. th'[p] = x
      BY <1>1 DEF Set, Tear
<1>3. ASSUME NEW q \in Procs \ {p}
      PROVE  th'[q].todo = th[q].todo /\ th'[q].did = th[q].did /\ th'[q].answer = th[q].answer
  <2>1. th'[q] = th[q] \/ th'[q] = [th[q] EXCEPT !.torn = TRUE]
      BY <1>1 DEF Set, Tear
  <2>2. th[q] \in Thread
      BY <1>1
  <2>3. QED
      BY <2>1, <2>2 DEF Thread
<1>4. \A q \in Procs \ {p} : Tested(th[q])
      BY DEF AllTested
<1>5. \A q \in Procs \ {p} : Tested(th'[q])
      BY <1>3, <1>4 DEF Tested
<1>6. \A q \in Procs : Tested(th'[q])
      BY <1>2, <1>5
<1>7. QED
      BY <1>6 DEF AllTested, Tested

LEMMA TestedPops ==
    ASSUME Inv, AllTested, NEW p \in Procs, Busy(p), NEW y, Goes(th[p], y),
           Set(p, Pop(y)) \/ \E b : Tear(p, Pop(y), b)
    PROVE  AllTested'
<1>1. th[p] \in Thread /\ th[p].todo # <<>> /\ th[p].answer = "none" /\ Tested(th[p])
      BY HeadIs DEF Busy, InOrder, AllTested
<1>2. Tested(Pop(y))
      BY <1>1, PopTested
<1>3. QED
      BY <1>2, OneGoesOn

LEMMA TestedAnswers ==
    ASSUME Inv, AllTested, NEW p \in Procs, NEW y \in Thread, NEW a \in Answers,
           Set(p, Answered(y, a)), a = "refused" => y = th[p] /\ HeadIn(th[p], Tests)
    PROVE  AllTested'
<1>1. ASSUME a = "refused" PROVE ~ y.did
  <2>1. y = th[p] /\ th[p].todo # <<>> /\ th[p].todo[1] \in Tests /\ th[p] \in Thread
      BY <1>1 DEF HeadIn
  <2>2. th[p].todo[1] \in Range(th[p].todo)
      BY <2>1, FirstStep
  <2>3. th[p].did => Range(th[p].todo) \cap Tests = {}
      BY DEF AllTested, Tested
  <2>4. QED
      BY <2>1, <2>2, <2>3
<1>2. Tested(Answered(y, a))
      BY <1>1, AnsweredTested
<1>3. QED
      BY <1>2, OneGoesOn

LEMMA TestedStep ==
    ASSUME Inv, AllTested, NEW p \in Procs, Step(p)
    PROVE  AllTested'
<1> DEFINE r == th[p]
<1>1. Busy(p)
  <2>1. CASE Reading(p) \/ First(p) \/ Bot(p) \/ Lookup(p) \/ Update(p) \/ Create(p) \/ Toggle(p)
      BY <2>1 DEF Reading, CheckInputs, Ask, Ready, Connection, Client, Request, Read, Raw, Call,
             Each, Clear, First, Bot, Lookup, Update, Create, Toggle, At
  <2>2. CASE \/ Exists(p) \/ Write(p) \/ Logout(p) \/ DeleteRow(p) \/ Forget(p) \/ Start(p)
             \/ Stop(p) \/ NewConnection(p) \/ AppendPaired(p)
      BY <2>2 DEF Exists, Write, Logout, DeleteRow, Forget, Start, Stop, NewConnection,
             AppendPaired, At
  <2>3. QED
      BY <2>1, <2>2 DEF Step, Reading
<1>2. /\ r \in Thread /\ Head(r.todo) = r.todo[1] /\ r.token \in Tokens /\ InOrder(r)
      /\ \A S : HeadIn(r, S) <=> Head(r.todo) \in S
      /\ \A step : At(p, step) <=> Head(r.todo) = step
      /\ r.answer = "none" /\ r.todo # <<>> /\ Tested(r)
      BY <1>1, HeadIs DEF AllTested, InOrder, Busy
<1>3. "done" \in Answers /\ "failed" \in Answers /\ "panic" \in Answers /\ "refused" \in Answers
      BY DEF Answers
<1>4. ASSUME NEW a \in {"done", "failed", "panic"}, Answer(p, a)
      PROVE  AllTested'
  <2>1. a \in Answers /\ a # "refused" /\ Set(p, Answered(r, a))
      BY <1>3, <1>4 DEF Answer
  <2>2. QED
      BY <1>2, <2>1, TestedAnswers
<1>5. ASSUME Answer(p, "refused"), HeadIn(r, Tests)
      PROVE  AllTested'
  <2>1. Set(p, Answered(r, "refused"))
      BY <1>5 DEF Answer
  <2>2. QED
      BY <1>2, <1>3, <1>5, <2>1, TestedAnswers
<1>6. ASSUME NEW y, Goes(r, y), Set(p, Pop(y)) \/ \E b : Tear(p, Pop(y), b)
      PROVE  AllTested'
      BY <1>1, <1>6, TestedPops
<1>7. ASSUME Next1(p) \/ \E b : Tear(p, Pop(r), b)
      PROVE  AllTested'
  <2>1. Goes(r, r)
      BY <1>2 DEF Goes
  <2>2. QED
      BY <1>6, <1>7, <2>1 DEF Next1
<1>8. /\ \A b \in DOMAIN heap : b \in Nat /\ heap[b].conn \in Nat
      /\ \A t \in Tokens : bots[t] \in Nat
      BY DEF Inv, TypeInv, Object
<1>9. /\ \A d \in BOOLEAN : d = r.did \/ HeadIn(r, Marks) => Goes(r, [r EXCEPT !.did = d])
      /\ \A t \in Tokens, b \in Nat : Goes(r, [r EXCEPT !.token = t, !.bot = b])
      /\ \A b \in Nat : Goes(r, [r EXCEPT !.bot = b])
      /\ \A c \in Nat : Goes(r, [r EXCEPT !.conn = c])
      /\ \A f \in BOOLEAN : Goes(r, [r EXCEPT !.found = f])
      /\ Goes(r, [r EXCEPT !.ready = TRUE])
      BY <1>2 DEF Thread, Goes
<1>10. ASSUME NEW s \in Marks, At(p, s), Mark(p, r)
       PROVE  AllTested'
  <2>1. HeadIn(r, Marks)
      BY <1>2, <1>10
  <2>2. QED
      BY <1>6, <1>9, <1>10, <2>1 DEF Mark
<1>11. CASE CheckInputs(p)
  <2>1. HeadIn(r, Inputs) /\ HeadIn(r, Tests)
      BY <1>2, <1>11 DEF CheckInputs, Tests
  <2>2. CASE Answer(p, "refused")
      BY <1>5, <2>1, <2>2
  <2>3. ASSUME NEW n \in 1..Len(r.todo),
               Set(p, IF n = Len(r.todo) THEN Answered(r, "done")
                      ELSE [r EXCEPT !.todo = SubSeq(r.todo, n + 1, Len(r.todo))])
        PROVE  AllTested'
    <3>1. CASE n = Len(r.todo)
      <4>1. Answer(p, "done")
            BY <2>3, <3>1 DEF Answer
      <4>2. QED
            BY <1>4, <4>1
    <3>2. CASE n # Len(r.todo)
      <4> DEFINE x == [r EXCEPT !.todo = Rest(r.todo, n)]
      <4>1. Set(p, x)
            BY <2>3, <3>2 DEF Rest
      <4>2. x.todo = Rest(r.todo, n) /\ x.did = r.did /\ x.answer = "none"
            BY <1>2 DEF Thread
      <4>3. r.todo \in Seq(Steps)
            BY <1>2 DEF Thread
      <4> HIDE DEF x
      <4>4. NeverAfter(x.todo, Marks, Tests)
            BY <1>2, <4>2, <4>3, RestNeverAfter DEF Tested
      <4>5. x.did => Range(x.todo) \cap Tests = {}
            BY <1>2, <4>2, <4>3, RestRange DEF Tested
      <4>6. Tested(x)
            BY <4>2, <4>4, <4>5 DEF Tested
      <4>7. QED
            BY <4>1, <4>6, OneGoesOn
    <3>3. QED
          BY <3>1, <3>2
  <2>4. QED
      BY <1>11, <2>2, <2>3 DEF CheckInputs
<1>12. CASE Ask(p) \/ Client(p) \/ Read(p) \/ Clear(p) \/ DeleteRow(p) \/ Forget(p) \/ NewConnection(p)
  <2>1. Next1(p) \/ Answer(p, "failed") \/ Answer(p, "panic")
      BY <1>12 DEF Ask, Client, Read, Clear, DeleteRow, Forget, NewConnection
  <2>2. QED
      BY <1>4, <1>7, <2>1
<1>13. CASE Bot(p) \/ First(p) \/ Ready(p) \/ Connection(p)
  <2>1. HeadIn(r, Tests)
      BY <1>2, <1>13 DEF Bot, First, Ready, Connection, Tests
  <2>2. CASE Answer(p, "refused")
      BY <1>5, <2>1, <2>2
  <2>3. CASE \E b \in Nat : Set(p, Pop([r EXCEPT !.bot = b]))
      BY <1>6, <1>9, <2>3
  <2>4. CASE \E t \in Tokens, b \in Nat : Set(p, Pop([r EXCEPT !.token = t, !.bot = b]))
      BY <1>6, <1>9, <2>4
  <2>5. CASE Set(p, Pop([r EXCEPT !.ready = TRUE]))
      BY <1>6, <1>9, <2>5
  <2>6. CASE Connection(p)
    <3>1. r.bot \in DOMAIN heap
      <4>1. HeadIn(r, UsesBot)
            BY <1>2, <2>6 DEF Connection, UsesBot
      <4>2. QED
            BY <1>2, <4>1, HoldsBot
    <3>2. Answer(p, "refused") \/ Set(p, Pop([r EXCEPT !.conn = heap[r.bot].conn]))
          BY <2>6 DEF Connection
    <3>3. QED
          BY <1>6, <1>8, <1>9, <2>2, <3>1, <3>2
  <2>7. QED
      BY <1>2, <1>8, <1>13, <2>2, <2>3, <2>4, <2>5, <2>6 DEF Bot, First, Ready
<1>14. CASE Request(p) \/ Call(p)
  <2>1. HeadIn(r, Marks)
      BY <1>2, <1>14 DEF Request, Call, Marks
  <2>2. \/ Set(p, Pop([r EXCEPT !.did = TRUE])) \/ Answer(p, "failed") \/ Answer(p, "panic")
      BY <1>14 DEF Request, Call
  <2>3. QED
      BY <1>4, <1>6, <1>9, <2>1, <2>2
<1>15. CASE Raw(p)
  <2>1. r.bot \in DOMAIN heap
    <3>1. HeadIn(r, UsesBot)
          BY <1>2, <1>15 DEF Raw, UsesBot
    <3>2. QED
          BY <1>2, <3>1, HoldsBot
  <2>2. Answer(p, "panic") \/ Set(p, Pop([r EXCEPT !.conn = heap[r.bot].conn]))
      BY <1>15 DEF Raw
  <2>3. QED
      BY <1>4, <1>6, <1>8, <1>9, <2>1, <2>2
<1>16. CASE Each(p)
  <2>1. HeadIn(r, Marks)
      BY <1>2, <1>16 DEF Each, Marks
  <2>2. \/ Next1(p) \/ Answer(p, "failed") \/ Answer(p, "panic")
        \/ \E d \in BOOLEAN : Set(p, Pop([r EXCEPT !.did = d]))
        \/ \E d \in BOOLEAN : Set(p, Answered([r EXCEPT !.did = d], "failed"))
      BY <1>16 DEF Each
  <2>3. ASSUME NEW d \in BOOLEAN, Set(p, Answered([r EXCEPT !.did = d], "failed")) PROVE AllTested'
    <3> DEFINE y == [r EXCEPT !.did = d]
    <3>1. y \in Thread /\ Set(p, Answered(y, "failed"))
          BY <1>2, <2>3 DEF Thread
    <3> HIDE DEF y
    <3>2. QED
          BY <1>3, <3>1, TestedAnswers
  <2>4. QED
      BY <1>4, <1>6, <1>7, <1>9, <2>1, <2>2, <2>3
<1>17. CASE Lookup(p)
  <2>1. Set(p, Pop([r EXCEPT !.bot = bots[r.token]])) /\ bots[r.token] \in Nat
      BY <1>2, <1>8, <1>17 DEF Lookup
  <2>2. QED
      BY <1>6, <1>9, <2>1
<1>18. CASE Update(p) \/ Toggle(p)
  <2>1. HeadIn(r, Marks)
      BY <1>2, <1>18 DEF Update, Toggle, Marks
  <2>2. Update(p) => HeadIn(r, Tests)
      BY <1>2 DEF Update, Tests
  <2>3. Mark(p, r) \/ Answer(p, "done") \/ (Update(p) /\ Answer(p, "refused"))
      BY <1>18 DEF Update, Toggle
  <2>4. QED
      BY <1>2, <1>4, <1>5, <1>10, <2>1, <2>2, <2>3
<1>19. CASE Create(p)
  <2>1. HeadIn(r, Marks)
      BY <1>2, <1>19 DEF Create, Marks
  <2>2. PICK b \in Nat : Mark(p, [r EXCEPT !.bot = b, !.created = TRUE])
    <3>1. Fresh \in Nat /\ bots[r.token] \in Nat
          BY <1>2, <1>8, FreshIsNew DEF Inv, TypeInv
    <3>2. QED
          BY <1>19, <3>1 DEF Create
  <2> DEFINE y == [[r EXCEPT !.bot = b, !.created = TRUE] EXCEPT !.did = TRUE]
  <2>3. Goes(r, y) /\ Set(p, Pop(y))
      BY <1>2, <2>1, <2>2 DEF Goes, Mark, Thread
  <2> HIDE DEF y
  <2>4. QED
      BY <1>6, <2>3
<1>20. CASE Exists(p)
  <2>1. \/ Set(p, Pop([r EXCEPT !.found = (rows[r.token] # None)]))
        \/ Answer(p, "failed")
      BY <1>20 DEF Exists, SaveFails
  <2>2. QED
      BY <1>4, <1>6, <1>9, <2>1
<1>21. CASE Write(p)
  <2>1. At(p, "write") /\ "write" \in Marks /\ (Mark(p, r) \/ Answer(p, "failed"))
      BY <1>21 DEF Write, SaveFails, Marks
  <2>2. QED
      BY <1>4, <1>10, <2>1
<1>22. CASE Logout(p)
  <2>1. HeadIn(r, Marks)
      BY <1>2, <1>22 DEF Logout, Marks
  <2>2. Answer(p, "failed") \/ Tear(p, Pop([r EXCEPT !.did = TRUE]), r.bot)
      BY <1>22 DEF Logout
  <2>3. QED
      BY <1>4, <1>6, <1>9, <2>1, <2>2
<1>23. CASE Start(p) \/ Stop(p)
  <2>1. Next1(p) \/ Answer(p, "failed") \/ Tear(p, Pop(r), r.bot)
      BY <1>23 DEF Start, Connect, Stop, Disconnect
  <2>2. QED
      BY <1>4, <1>7, <2>1
<1>24. CASE AppendPaired(p)
  <2>1. PICK b \in Nat : Set(p, Pop([r EXCEPT !.bot = b]))
    <3>1. Fresh \in Nat /\ bots[r.token] \in Nat
          BY <1>2, <1>8, FreshIsNew DEF Inv, TypeInv
    <3>2. QED
          BY <1>24, <3>1 DEF AppendPaired
  <2>2. QED
      BY <1>6, <1>9, <2>1
<1>25. QED
      BY <1>11, <1>12, <1>13, <1>14, <1>15, <1>16, <1>17, <1>18, <1>19, <1>20, <1>21, <1>22,
         <1>23, <1>24 DEF Step

LEMMA IdleIsTested ==
    ASSUME NEW route \in Seq(Steps), NeverAfter(route, Marks, Tests), NEW x,
           x.todo = route, ~ x.did, x.answer = "none" \/ x.answer = "done"
    PROVE  Tested(x)
    BY DEF Tested

LEMMA TestedNext ==
    Inv /\ AllTested /\ [Next]_vars => AllTested'
<1> SUFFICES ASSUME Inv, AllTested, [Next]_vars PROVE AllTested'
    OBVIOUS
<1>1. Idle.did = FALSE /\ Idle.todo = <<>> /\ Idle.answer = "none" /\ Idle \in Thread
      BY IdleIsInOrder DEF Idle
<1>2. <<>> \in Seq(Steps) /\ NeverAfter(<<>>, Marks, Tests)
      BY EmptySeq DEF NeverAfter
<1>3. Tested(Idle)
      BY <1>1, <1>2, IdleIsTested
<1>4. ASSUME NEW route \in Seq(Steps), NeverAfter(route, Marks, Tests),
             NEW p \in Procs, NEW x, Set(p, x),
             x.todo = route, ~ x.did, x.answer = "none"
      PROVE  AllTested'
      BY <1>4, IdleIsTested, OneGoesOn
<1>5. ASSUME NEW p \in Procs, NEW route \in RoutesOf[p], NEW t \in Tokens, Begin(p, route, t)
      PROVE  AllTested'
  <2>1. route \in Seq(Steps) /\ NeverAfter(route, Marks, Tests)
      BY RoutesAssumption
  <2>2. CASE route = <<>>
    <3>1. Set(p, Answered(Idle, "done"))
          BY <1>5, <2>2 DEF Begin
    <3>2. "done" \in Answers /\ "done" # "refused"
          BY DEF Answers
    <3>3. Tested(Answered(Idle, "done"))
          BY <1>1, <3>2, AnsweredTested
    <3>4. QED
          BY <3>1, <3>3, OneGoesOn
  <2>3. CASE route # <<>>
    <3> DEFINE x == [Idle EXCEPT !.todo = route, !.token = t]
    <3>1. Set(p, x)
          BY <1>5, <2>3 DEF Begin
    <3>2. x.todo = route /\ ~ x.did /\ x.answer = "none"
          BY DEF Idle
    <3> HIDE DEF x
    <3>3. QED
          BY <1>4, <2>1, <3>1, <3>2
  <2>4. QED
      BY <2>2, <2>3
<1>6. ASSUME NEW p \in Procs, Initialize(p)
      PROVE  AllTested'
  <2>1. PICK o \in starting :
            Set(p, [Idle EXCEPT !.todo = <<"start">>, !.token = heap[o].token, !.bot = o])
      BY <1>6 DEF Initialize
  <2> DEFINE x == [Idle EXCEPT !.todo = <<"start">>, !.token = heap[o].token, !.bot = o]
  <2>2. <<"start">> \in Seq(Steps) /\ NeverAfter(<<"start">>, Marks, Tests)
    <3>1. "start" \in Steps /\ "start" \notin Marks
          BY DEF Steps, Writes, Marks
    <3>2. <<"start">> \in Seq(Steps) /\ DOMAIN <<"start">> = {1} /\ <<"start">>[1] = "start"
          BY <3>1
    <3>3. QED
          BY <3>1, <3>2 DEF NeverAfter
  <2>3. x.todo = <<"start">> /\ ~ x.did /\ x.answer = "none"
      BY DEF Idle
  <2> HIDE DEF x
  <2>4. QED
      BY <1>4, <2>1, <2>2, <2>3 DEF x
<1>7. ASSUME NEW p \in Procs, OnPaired(p)
      PROVE  AllTested'
  <2> DEFINE route == <<"pair">> \o Save
  <2>1. PICK c \in DOMAIN pairing, t \in Tokens :
            Set(p, [Idle EXCEPT !.todo = route, !.token = t, !.conn = c])
      BY <1>7 DEF OnPaired
  <2> DEFINE x == [Idle EXCEPT !.todo = route, !.token = t, !.conn = c]
  <2>2. route \in Seq(Steps) /\ DOMAIN route = 1..3
        /\ route[1] = "pair" /\ route[2] = "exists" /\ route[3] = "write"
      BY PairingSteps
  <2>3. "exists" \notin Tests /\ "write" \notin Tests
      BY DEF Tests, Inputs
  <2>4. x.todo = route /\ ~ x.did /\ x.answer = "none" /\ Set(p, x)
      BY <2>1 DEF Idle
  <2> HIDE DEF x, route
  <2>5. \A j \in DOMAIN route : j > 1 => route[j] \notin Tests
    <3>1. \A j \in 1..3 : j > 1 => j = 2 \/ j = 3
          OBVIOUS
    <3>2. QED
          BY <2>2, <2>3, <3>1
  <2>6. NeverAfter(route, Marks, Tests)
    <3>1. \A i, j \in DOMAIN route : i < j => j > 1
          BY <2>2
    <3>2. QED
          BY <2>5, <3>1 DEF NeverAfter
  <2>7. QED
      BY <1>4, <2>2, <2>4, <2>6
<1>8. CASE Reboot
  <2>1. \A p \in Procs : th'[p] = Idle
      BY <1>8 DEF Reboot
  <2>2. \A p \in Procs : Tested(th'[p])
      BY <1>3, <2>1
  <2>3. QED
      BY <2>2 DEF AllTested, Tested
<1>9. CASE Drop \/ Return \/ UNCHANGED vars
  <2>1. th' = th
      BY <1>9 DEF Drop, Return, vars
  <2>2. QED
      BY <2>1 DEF AllTested, Tested
<1>10. QED
      BY <1>5, <1>6, <1>7, <1>8, <1>9, TestedStep DEF Next

(***************************************************************************)
(* What follows.                                                           *)
(***************************************************************************)
(* All variables keep their types, a registered bot is an object that      *)
(* exists, and no object has a connection that was never made.             *)
THEOREM TypeCorrect ==
    Spec => []TypeOK
<1>1. Inv /\ Counted => TypeOK
  <2> SUFFICES ASSUME Inv, begun \in 0..MaxRequests PROVE TypeOK
      BY DEF Counted
  <2>1. rows \in [Tokens -> [wid : Nat, conf : 0..1] \cup {None}]
      BY DEF Inv, TypeInv, Row
  <2>2. ASSUME NEW o \in DOMAIN heap PROVE heap[o].conn \in 0..made
    <3>1. heap[o].conn = 0 \/ heap[o].conn \in 1..made
          BY DEF Inv, TypeInv, Apart
    <3>2. made \in Nat
          BY DEF Inv, TypeInv
    <3>3. QED
          BY <3>1, <3>2
  <2>3. DOMAIN pairing \subseteq conns
      BY DEF Inv, Apart
  <2>4. \A p \in Procs : th[p].answer \in Answers
      BY DEF Inv, TypeInv, Thread
  <2>5. QED
      BY <2>1, <2>2, <2>3, <2>4 DEF TypeOK, Inv, TypeInv
<1>2. QED
      BY <1>1, Invariance, BegunIsBounded, PTL

(* Memory and table agree on every bot nobody is serving, whatever failed  *)
(* and whatever ran at once, but for the bots whose last Save failed and   *)
(* those made or deleted under another request (OnPaired, AppendNewServer, *)
(* Delete, Save).                                                          *)
THEOREM MemoryAgreesWithDatabase ==
    Spec => []MemoryIsDatabase
<1>1. Inv => MemoryIsDatabase
  <2> SUFFICES ASSUME Inv, NEW t \in Tokens \ (clash \cup unsaved),
                      \A p \in Procs : ~(Busy(p) /\ th[p].token = t)
               PROVE  Agree(t)
      BY DEF MemoryIsDatabase, Agree
  <2>1. Agree(t) \/ Pending(t)
      BY DEF Inv, RowsInv
  <2>2. ~ Pending(t)
      BY DEF Pending, HeadIn, Busy
  <2>3. QED
      BY <2>1, <2>2
<1>2. QED
      BY <1>1, Invariance, PTL

(* Every session that was neither replaced by a pairing nor waits for a    *)
(* phone is that of a registered bot, or of one on which requests clashed, *)
(* or is being handed over by the pairing that brought it.                 *)
THEOREM EverySessionHasItsBot ==
    Spec => []NoSessionIsOrphaned
<1>1. Inv => NoSessionIsOrphaned
  <2> SUFFICES ASSUME Inv, NEW c \in conns \ (DOMAIN pairing \cup replaced)
               PROVE  \/ \E t \in Tokens : Registered(t) /\ heap[bots[t]].conn = c
                      \/ \E o \in DOMAIN heap : heap[o].conn = c /\ heap[o].token \in clash
                      \/ \E p \in Procs : th[p].conn = c
      BY DEF NoSessionIsOrphaned
  <2>1. CASE \E p \in Procs : Waiting(th[p]) /\ th[p].conn = c
      BY <2>1
  <2>2. ASSUME NEW o \in DOMAIN heap, heap[o].conn = c
        PROVE  \/ \E t \in Tokens : Registered(t) /\ heap[bots[t]].conn = c
               \/ heap[o].token \in clash
    <3>1. c # 0
          BY DEF Inv, TypeInv
    <3>2. o # 0 /\ heap[o].token \in Tokens
          BY DEF Inv, TypeInv, Object
    <3>3. bots[heap[o].token] = o \/ heap[o].token \in clash
          BY <2>2, <3>1 DEF Inv, Owned
    <3>4. QED
          BY <2>2, <3>2, <3>3 DEF Registered
  <2>3. QED
      BY <2>1, <2>2 DEF Inv, Owned
<1>2. QED
      BY <1>1, Invariance, PTL

(* A request that tested whether its bot is ready panics on a connection   *)
(* that is gone only when another request took it away after the test.     *)
THEOREM PanicsAreTorn ==
    Spec => []PanicsOnlyIfTorn
<1>1. Inv => PanicsOnlyIfTorn
      BY DEF Inv, InOrder, PanicsOnlyIfTorn
<1>2. QED
      BY <1>1, Invariance, PTL

(* What can refuse a request is asked before the request has sent or       *)
(* changed anything: who is told it was refused may ask again.             *)
THEOREM RefusedLeavesNothing ==
    Spec => []RefusedChangesNothing
<1>1. Init => AllTested
  <2> SUFFICES ASSUME Init PROVE AllTested
      OBVIOUS
  <2>1. \A p \in Procs : th[p] = Idle
      BY DEF Init
  <2>2. Idle.did = FALSE /\ Idle.todo = <<>> /\ Idle.answer = "none"
      BY DEF Idle
  <2>3. <<>> \in Seq(Steps) /\ NeverAfter(<<>>, Marks, Tests)
      BY EmptySeq DEF NeverAfter
  <2>4. Tested(Idle)
      BY <2>2, <2>3, IdleIsTested
  <2>5. QED
      BY <2>1, <2>4 DEF AllTested
<1>2. Inv /\ AllTested /\ [Next]_vars => AllTested'
      BY TestedNext
<1>3. AllTested => RefusedChangesNothing
      BY DEF AllTested, Tested, RefusedChangesNothing
<1>4. QED
      BY <1>1, <1>2, <1>3, Invariance, PTL DEF Spec
=============================================================================
