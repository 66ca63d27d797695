---------------------------- MODULE Messages_proofs ----------------------------
(***************************************************************************)
(* Proofs about the messages of a bot: the cache for any number of         *)
(* goroutines and of messages, and the status of a message whatever its    *)
(* receipts, deliveries and evictions.                                     *)
(***************************************************************************)
EXTENDS Messages, FiniteSetTheorems, TLAPS

(***************************************************************************)
(* The counter is a uint64, which wraps around.                            *)
(***************************************************************************)
LEMMA ModOfMultiple ==
    ASSUME NEW k \in Nat, NEW r \in Nat, NEW M \in Nat \ {0}, r < M
    PROVE  (M * k + r) % M = r
OBVIOUS

LEMMA ModUp ==
    ASSUME NEW c \in Nat, NEW M \in Nat \ {0}, c < M
    PROVE  (c + 1) % M = IF c + 1 = M THEN 0 ELSE c + 1
<1>1. M * 1 + 0 = M /\ (M * 1 + 0) % M = 0
  BY ModOfMultiple
<1> QED
  BY <1>1

LEMMA ModDown ==
    ASSUME NEW c \in Nat, NEW M \in Nat \ {0}, c < M
    PROVE  (c + M - 1) % M = IF c = 0 THEN M - 1 ELSE c - 1
<1>1. CASE c # 0
  <2>1. (M * 1 + (c - 1)) % M = c - 1 /\ M * 1 + (c - 1) = c + M - 1
    BY <1>1, ModOfMultiple
  <2> QED
    BY <1>1, <2>1
<1>2. CASE c = 0
  BY <1>2
<1> QED
  BY <1>1, <1>2

LEMMA ModOfDrift ==
    ASSUME NEW c \in Nat, NEW M \in Nat \ {0}, c < M, NEW k \in Int, NEW d \in Int,
           d = c + M * k, d > - M
    PROVE  (d + M) % M = c
<1>1. k >= -1
  <2>1. SUFFICES ASSUME k <= -2 PROVE FALSE
    OBVIOUS
  <2>2. M * k <= M * (-2)
    BY <2>1
  <2> QED
    BY <2>2
<1>2. d + M = M * (k + 1) + c /\ k + 1 \in Nat
  BY <1>1
<1> QED
  BY <1>2, ModOfMultiple

(***************************************************************************)
(* The invariant of the cache.                                             *)
(***************************************************************************)
Whats == {WithoutDelay(c) : c \in Contents} \cup {Removed.what}
Entries == [what : Whats, triggered : BOOLEAN]

CacheType ==
    /\ TypeOK
    /\ IsFiniteSet(Cached)
    /\ log \in [Ids -> Seq(Entries)]

Counting == {"count"}
Uncounting == {"uncountVictim", "uncountExpired"}

\* the counter without the wrapping around
Counted == Cardinality(Cached) - Cardinality(At(Counting)) + Cardinality(At(Uncounting))

CounterInv == \E k \in Int : Counted = counter + Modulus * k

\* The goroutines that have a message too many to answer for, and those of them
\* that are at it, which leave so many messages.
Busy == {"count", "length", "snapshot", "evict", "uncountVictim"}
Cleaning == {"snapshot", "evict", "uncountVictim"}

Leaves(p) == IF pc[p] = "snapshot" THEN Cardinality(Cached) - amount[p]
             ELSE Cardinality(Cached \ victims[p])

\* However many of those that are at it are done, the others answer for what is
\* left, if not at once then when the last of those to count has evicted.
Bound(Q) == CacheLength + Cardinality(At(Busy) \ Q)

Answered(Q) ==
    \/ Cardinality(Cached) <= Bound(Q)
    \/ \E p \in Q : Leaves(p) <= Bound(Q)

CleanInv == CacheLength > 0 => \A Q \in SUBSET At(Cleaning) : Answered(Q)

(***************************************************************************)
(* The number of goroutines somewhere.                                     *)
(***************************************************************************)
Bit(b) == IF b THEN 1 ELSE 0

LEMMA AtFinite ==
    ASSUME NEW L, NEW Q
    PROVE  /\ IsFiniteSet(At(L) \ Q) /\ Cardinality(At(L) \ Q) \in Nat
           /\ Cardinality(At(L) \ Q) <= Cardinality(Procs)
<1>1. At(L) \ Q \subseteq Procs /\ IsFiniteSet(Procs)
  BY CacheAssumption DEF At
<1> QED
  BY <1>1, FS_Subset, FS_CardinalityType

LEMMA GotoMoves ==
    ASSUME pc \in [Procs -> PC], NEW p \in Procs, NEW l, Goto(p, l), NEW L, NEW Q
    PROVE  Cardinality(At(L) \ Q)' = Cardinality(At(L) \ Q)
               + (IF p \in Q THEN 0 ELSE Bit(l \in L) - Bit(pc[p] \in L))
<1>1. pc' = [pc EXCEPT ![p] = l] /\ pc'[p] = l
  BY DEF Goto
<1>2. IsFiniteSet(At(L) \ Q) /\ Cardinality(At(L) \ Q) \in Nat
  BY AtFinite
<1> DEFINE S == At(L) \ Q
           n == Cardinality(S)
<1>3. CASE p \in Q
  <2>1. (At(L) \ Q)' = At(L) \ Q
    BY <1>1, <1>3 DEF At
  <2> QED
    BY <1>2, <1>3, <2>1
<1>4. CASE p \notin Q /\ l \in L
  <2>1. S' = S \cup {p} /\ (p \in S <=> pc[p] \in L)
    BY <1>1, <1>4 DEF At
  <2>2. Cardinality(S \cup {p}) = IF p \in S THEN n ELSE n + 1
    BY <1>2, FS_AddElement
  <2>3. n' = IF pc[p] \in L THEN n ELSE n + 1
    BY <2>1, <2>2
  <2>4. Bit(l \in L) = 1
    BY <1>4 DEF Bit
  <2>5. Bit(pc[p] \in L) = IF pc[p] \in L THEN 1 ELSE 0
    BY DEF Bit
  <2> QED
    BY <1>2, <1>4, <2>3, <2>4, <2>5
<1>5. CASE p \notin Q /\ l \notin L
  <2>1. S' = S \ {p} /\ (p \in S <=> pc[p] \in L)
    BY <1>1, <1>5 DEF At
  <2>2. Cardinality(S \ {p}) = IF p \in S THEN n - 1 ELSE n
    BY <1>2, FS_RemoveElement
  <2>3. n' = IF pc[p] \in L THEN n - 1 ELSE n
    BY <2>1, <2>2
  <2>4. Bit(l \in L) = 0
    BY <1>5 DEF Bit
  <2>5. Bit(pc[p] \in L) = IF pc[p] \in L THEN 1 ELSE 0
    BY DEF Bit
  <2> QED
    BY <1>2, <1>5, <2>3, <2>4, <2>5
<1> QED
  BY <1>3, <1>4, <1>5

(***************************************************************************)
(* The steps of the cache, with what they do to its map: a message is put  *)
(* into it, another one takes its place, it is deleted, or nothing.        *)
(***************************************************************************)
LEMMA CachedChanges ==
    ASSUME CacheType, NEW p \in Procs
    PROVE  /\ \A i \in Ids, c \in Contents : Append_(p, i, c) => Cached' = Cached \cup {i}
           /\ \A i \in Ids : Remove(i) => Cached' = Cached \ {i}
<1>1. ASSUME NEW i \in Ids, NEW c \in Contents, Append_(p, i, c)
      PROVE  Cached' = Cached \cup {i}
  <2>1. cacheMap' = [j \in Cached \cup {i} |->
                        IF j = i THEN [content |-> c, expiration |-> now + Lifetime]
                                 ELSE cacheMap[j]]
    BY <1>1 DEF Append_
  <2>2. DOMAIN cacheMap' = Cached \cup {i}
    BY <2>1
  <2> QED
    BY <2>2 DEF Cached
<1>2. ASSUME NEW i \in Ids, Remove(i) PROVE Cached' = Cached \ {i}
  <2>1. cacheMap' = [j \in Cached \ {i} |-> cacheMap[j]]
    BY <1>2 DEF Remove
  <2>2. DOMAIN cacheMap' = Cached \ {i}
    BY <2>1
  <2> QED
    BY <2>2 DEF Cached
<1> QED
  BY <1>1, <1>2

LEMMA LogGrows ==
    ASSUME CacheType, NEW i \in Ids, NEW e \in Entries, log' = [log EXCEPT ![i] = Append(@, e)]
    PROVE  log' \in [Ids -> Seq(Entries)]
<1>1. log[i] \in Seq(Entries)
  BY DEF CacheType
<1>2. Append(log[i], e) \in Seq(Entries)
  BY <1>1
<1> QED
  BY <1>2 DEF CacheType

LEMMA LifetimeType == Lifetime \in Nat
BY CacheAssumption DEF Lifetime

LEMMA TypeInit == Init => CacheType
<1> SUFFICES ASSUME Init PROVE CacheType
  OBVIOUS
<1>1. Cached = {} /\ cacheMap \in [Cached -> Item]
  BY DEF Init, Cached
<1>2. IsFiniteSet(Cached)
  BY <1>1, FS_EmptySet
<1>3. log \in [Ids -> Seq(Entries)]
  <2>1. <<>> \in Seq(Entries)
    OBVIOUS
  <2> QED
    BY <2>1 DEF Init
<1>4. counter \in 0..(Modulus - 1) /\ amount \in [Procs -> 0..(Modulus - 1)]
  <2>1. CacheLength \in Nat /\ Cardinality(Procs) \in Nat /\ Modulus \in Nat
    BY CacheAssumption, FS_CardinalityType
  <2>2. 0 \in 0..(Modulus - 1)
    BY <2>1, CacheAssumption
  <2> QED
    BY <2>2 DEF Init
<1>5. now \in 0..MaxTime /\ appends \in 0..MaxAppends
  BY CacheAssumption DEF Init
<1>6. /\ pc \in [Procs -> PC] /\ id \in [Procs -> Ids \cup {NoId}]
      /\ victims \in [Procs -> SUBSET Ids]
  BY DEF Init, PC
<1> QED
  BY <1>1, <1>2, <1>3, <1>4, <1>5, <1>6 DEF CacheType, TypeOK

LEMMA ModulusType ==
    /\ Modulus \in Nat \ {0} /\ CacheLength \in Nat /\ Cardinality(Procs) \in Nat
    /\ Modulus > 4 * (CacheLength + Cardinality(Procs) + 1)
<1>1. CacheLength \in Nat /\ Cardinality(Procs) \in Nat /\ Modulus \in Nat
  BY CacheAssumption, FS_CardinalityType
<1> QED
  BY <1>1, CacheAssumption

LEMMA RemoveTypes ==
    ASSUME CacheType, NEW i \in Ids, Remove(i)
    PROVE  /\ cacheMap' \in [Cached' -> Item] /\ Cached' \subseteq Ids
           /\ IsFiniteSet(Cached') /\ log' \in [Ids -> Seq(Entries)]
<1>1. cacheMap' = [j \in Cached \ {i} |-> cacheMap[j]]
  BY DEF Remove
<1>2. Cached' = Cached \ {i}
  <2>1. DOMAIN cacheMap' = Cached \ {i}
    BY <1>1
  <2> QED
    BY <2>1 DEF Cached
<1>3. cacheMap' \in [Cached' -> Item] /\ Cached' \subseteq Ids
  BY <1>1, <1>2 DEF CacheType, TypeOK
<1>4. IsFiniteSet(Cached')
  BY <1>2, FS_RemoveElement DEF CacheType
<1>5. Removed \in Entries
  <2>1. Removed.what \in Whats /\ Removed.triggered = FALSE
    BY DEF Whats, Removed
  <2> QED
    BY <2>1 DEF Entries, Removed
<1>6. log' = [log EXCEPT ![i] = Append(@, Removed)]
  BY DEF Remove
<1> QED
  BY <1>3, <1>4, <1>5, <1>6, LogGrows

LEMMA TypeStep == CacheType /\ [Next]_vars => CacheType'
<1> SUFFICES ASSUME CacheType, [Next]_vars PROVE CacheType'
  OBVIOUS
<1> USE DEF PC
<1>0. /\ Cached \subseteq Ids /\ cacheMap \in [Cached -> Item]
      /\ counter \in 0..(Modulus - 1)
      /\ now \in 0..MaxTime
      /\ pc \in [Procs -> PC]
      /\ id \in [Procs -> Ids \cup {NoId}]
      /\ amount \in [Procs -> 0..(Modulus - 1)]
      /\ victims \in [Procs -> SUBSET Ids]
      /\ appends \in 0..MaxAppends
      /\ IsFiniteSet(Cached) /\ log \in [Ids -> Seq(Entries)]
  BY DEF CacheType, TypeOK
<1>1. ASSUME NEW p \in Procs, NEW i \in Ids, NEW c \in Contents, Append_(p, i, c)
      PROVE  CacheType'
  <2> DEFINE valid == i \notin Cached \/ ~IsDuplicate(c, cacheMap[i].content)
             e == Delivered(c, valid)
             item == [content |-> c, expiration |-> now + Lifetime]
  <2>1. Cached' = Cached \cup {i}
    BY <1>1, CachedChanges
  <2>2. item \in Item
    BY <1>0, LifetimeType, CacheAssumption DEF Item
  <2>3. cacheMap' = [j \in Cached \cup {i} |-> IF j = i THEN item ELSE cacheMap[j]]
    BY <1>1 DEF Append_
  <2>4. cacheMap' \in [Cached' -> Item] /\ Cached' \subseteq Ids
    BY <1>0, <2>1, <2>2, <2>3
  <2>5. IsFiniteSet(Cached')
    BY <1>0, <2>1, FS_AddElement
  <2>6. e \in Entries
    <3>1. valid \in BOOLEAN /\ WithoutDelay(c) \in Whats
      BY DEF Whats
    <3> HIDE DEF valid
    <3> QED
      BY <3>1 DEF Entries, Delivered
  <2>7. log' = [log EXCEPT ![i] = Append(@, e)]
    BY <1>1 DEF Append_
  <2>8. log' \in [Ids -> Seq(Entries)]
    BY <2>6, <2>7, LogGrows
  <2>9. /\ \E l \in PC : pc' = [pc EXCEPT ![p] = l]
        /\ id' = [id EXCEPT ![p] = i] /\ appends' = appends + 1
        /\ appends < MaxAppends
        /\ UNCHANGED <<counter, now, amount, victims>>
    BY <1>1 DEF Append_, Goto
  <2>10. pc' \in [Procs -> PC] /\ id' \in [Procs -> Ids \cup {NoId}]
    BY <1>0, <2>9
  <2>11. appends' \in 0..MaxAppends
    BY <1>0, <2>9, CacheAssumption
  <2> QED
    BY <1>0, <2>4, <2>5, <2>8, <2>9, <2>10, <2>11 DEF CacheType, TypeOK
<1>2. ASSUME NEW p \in Procs, CountNew(p) PROVE CacheType'
  <2>1. counter' \in 0..(Modulus - 1)
    BY <1>0, <1>2, ModulusType, ModUp DEF CountNew
  <2>2. pc' \in [Procs -> PC]
    BY <1>0, <1>2 DEF CountNew, Goto
  <2> QED
    BY <1>0, <1>2, <2>1, <2>2 DEF CacheType, TypeOK, CountNew, Cached
<1>3. ASSUME NEW p \in Procs, LoadLength(p) PROVE CacheType'
  <2> DEFINE a == (counter - CacheLength + Modulus) % Modulus
  <2>1. a \in 0..(Modulus - 1)
    BY <1>0, ModulusType
  <2>2. amount' = [amount EXCEPT ![p] = a]
    BY <1>3 DEF LoadLength
  <2>3. amount' \in [Procs -> 0..(Modulus - 1)]
    BY <1>0, <2>1, <2>2
  <2>4. pc' \in [Procs -> PC]
    BY <1>0, <1>3 DEF LoadLength, Goto
  <2> QED
    BY <1>0, <1>3, <2>3, <2>4 DEF CacheType, TypeOK, LoadLength, Cached
<1>4. ASSUME NEW p \in Procs, Snapshot(p) PROVE CacheType'
  <2>1. PICK S \in SUBSET Cached : victims' = [victims EXCEPT ![p] = S]
    BY <1>4 DEF Snapshot
  <2>2. victims' \in [Procs -> SUBSET Ids]
    BY <1>0, <2>1
  <2>3. pc' \in [Procs -> PC]
    BY <1>0, <1>4 DEF Snapshot, Goto
  <2> QED
    BY <1>0, <1>4, <2>2, <2>3 DEF CacheType, TypeOK, Snapshot, Cached
<1>5. ASSUME NEW p \in Procs, Evict(p) PROVE CacheType'
  <2>1. PICK i \in victims[p] :
          /\ victims' = [victims EXCEPT ![p] = @ \ {i}]
          /\ id' = [id EXCEPT ![p] = i]
          /\ IF i \in Cached
               THEN Remove(i) /\ Goto(p, "uncountVictim")
               ELSE UNCHANGED <<cacheMap, log, pc>>
    BY <1>5 DEF Evict
  <2>2. i \in Ids
    BY <1>0
  <2>3. victims' \in [Procs -> SUBSET Ids] /\ id' \in [Procs -> Ids \cup {NoId}]
    BY <1>0, <2>1, <2>2
  <2>4. UNCHANGED <<counter, now, amount, appends>>
    BY <1>5 DEF Evict
  <2>5. /\ cacheMap' \in [Cached' -> Item] /\ Cached' \subseteq Ids
        /\ IsFiniteSet(Cached') /\ log' \in [Ids -> Seq(Entries)]
    <3>1. CASE i \in Cached
      BY <2>1, <2>2, <3>1, RemoveTypes
    <3>2. CASE i \notin Cached
      BY <1>0, <2>1, <3>2 DEF Cached
    <3> QED
      BY <3>1, <3>2
  <2>6. pc' \in [Procs -> PC]
    BY <1>0, <2>1 DEF Goto
  <2> QED
    BY <1>0, <2>3, <2>4, <2>5, <2>6 DEF CacheType, TypeOK
<1>6. ASSUME NEW p \in Procs, EndCleanUp(p) PROVE CacheType'
  <2>1. pc' \in [Procs -> PC]
    BY <1>0, <1>6 DEF EndCleanUp, Goto
  <2> QED
    BY <1>0, <1>6, <2>1 DEF CacheType, TypeOK, EndCleanUp, Cached
<1>7. ASSUME NEW p \in Procs, NEW i \in Ids, FindExpired(p, i) PROVE CacheType'
  <2>1. pc' \in [Procs -> PC] /\ id' \in [Procs -> Ids \cup {NoId}]
    BY <1>0, <1>7 DEF FindExpired, Goto
  <2> QED
    BY <1>0, <1>7, <2>1 DEF CacheType, TypeOK, FindExpired, Cached
<1>8. ASSUME NEW p \in Procs, DeleteExpired(p) PROVE CacheType'
  <2>1. pc' \in [Procs -> PC]
    BY <1>0, <1>8 DEF DeleteExpired, Goto
  <2>2. UNCHANGED <<counter, now, id, amount, victims, appends>>
    BY <1>8 DEF DeleteExpired
  <2>3. /\ cacheMap' \in [Cached' -> Item] /\ Cached' \subseteq Ids
        /\ IsFiniteSet(Cached') /\ log' \in [Ids -> Seq(Entries)]
    <3>1. CASE id[p] \in Cached
      <4>1. id[p] \in Ids /\ Remove(id[p])
        BY <1>0, <1>8, <3>1 DEF DeleteExpired
      <4> QED
        BY <4>1, RemoveTypes
    <3>2. CASE id[p] \notin Cached
      BY <1>0, <1>8, <3>2 DEF DeleteExpired, Cached
    <3> QED
      BY <3>1, <3>2
  <2> QED
    BY <1>0, <2>1, <2>2, <2>3 DEF CacheType, TypeOK
<1>9. ASSUME NEW p \in Procs, Uncount(p) PROVE CacheType'
  <2>1. counter' \in 0..(Modulus - 1)
    BY <1>0, <1>9, ModulusType, ModDown DEF Uncount
  <2>2. pc' \in [Procs -> PC]
    BY <1>0, <1>9 DEF Uncount, Goto
  <2> QED
    BY <1>0, <1>9, <2>1, <2>2 DEF CacheType, TypeOK, Uncount, Cached
<1>10. ASSUME DayPasses PROVE CacheType'
  <2>1. now' \in 0..MaxTime
    BY <1>0, <1>10, CacheAssumption DEF DayPasses
  <2> QED
    BY <1>0, <1>10, <2>1 DEF CacheType, TypeOK, DayPasses, Cached
<1>11. CASE UNCHANGED vars
  BY <1>0, <1>11 DEF CacheType, TypeOK, vars, Cached
<1> QED
  BY <1>1, <1>2, <1>3, <1>4, <1>5, <1>6, <1>7, <1>8, <1>9, <1>10, <1>11 DEF Next

THEOREM CacheIsTyped == Spec => []CacheType
<1>1. Init => CacheType
  BY TypeInit
<1>2. CacheType /\ [Next]_vars => CacheType'
  BY TypeStep
<1> QED
  BY <1>1, <1>2, PTL DEF Spec

(***************************************************************************)
(* Every step of the cache is one of these, as far as the counters are     *)
(* concerned.                                                              *)
(***************************************************************************)
LEMMA CountsType ==
    ASSUME CacheType
    PROVE  /\ Cardinality(Cached) \in Nat
           /\ Cardinality(At(Counting)) \in Nat /\ Cardinality(At(Uncounting)) \in Nat
           /\ Cardinality(At(Counting)) <= Cardinality(Procs)
           /\ Cardinality(At(Uncounting)) <= Cardinality(Procs)
           /\ counter \in Nat /\ counter < Modulus
<1>1. /\ Cardinality(At(Counting) \ {}) \in Nat
      /\ Cardinality(At(Counting) \ {}) <= Cardinality(Procs)
      /\ Cardinality(At(Uncounting) \ {}) \in Nat
      /\ Cardinality(At(Uncounting) \ {}) <= Cardinality(Procs)
  BY AtFinite
<1>2. At(Counting) \ {} = At(Counting) /\ At(Uncounting) \ {} = At(Uncounting)
  OBVIOUS
<1>3. Cardinality(Cached) \in Nat
  BY FS_CardinalityType DEF CacheType
<1> QED
  BY <1>1, <1>2, <1>3, ModulusType DEF CacheType, TypeOK

\* the same as GotoMoves, for all the goroutines
LEMMA GotoCounts ==
    ASSUME CacheType, NEW p \in Procs, NEW l, Goto(p, l), NEW L
    PROVE  Cardinality(At(L))' = Cardinality(At(L)) + Bit(l \in L) - Bit(pc[p] \in L)
<1>0. pc \in [Procs -> PC]
  BY DEF CacheType, TypeOK
<1>1. ASSUME NEW Q
      PROVE  Cardinality(At(L) \ Q)' = Cardinality(At(L) \ Q)
                 + (IF p \in Q THEN 0 ELSE Bit(l \in L) - Bit(pc[p] \in L))
  BY <1>0, GotoMoves
<1>2. At(L) \ {} = At(L) /\ (At(L) \ {})' = At(L)'
  OBVIOUS
<1>3. Cardinality(At(L))' = Cardinality(At(L)) + (Bit(l \in L) - Bit(pc[p] \in L))
  BY <1>1, <1>2
<1>4. Cardinality(At(L) \ {}) \in Nat
  BY AtFinite
<1>5. Bit(l \in L) \in Int /\ Bit(pc[p] \in L) \in Int
  BY DEF Bit
<1> QED
  BY <1>2, <1>3, <1>4, <1>5

\* what a goroutine at l adds to Counted, beside what is in the map
Weight(l) == Bit(l \in Uncounting) - Bit(l \in Counting)

LEMMA Weights ==
    /\ \A l \in {"idle", "length", "snapshot", "evict", "expired"} : Weight(l) = 0
    /\ Weight("count") = -1
    /\ Weight("uncountVictim") = 1 /\ Weight("uncountExpired") = 1
BY DEF Weight, Bit, Counting, Uncounting

LEMMA CountedMoves ==
    ASSUME CacheType, CacheType', NEW p \in Procs, NEW l, Goto(p, l), NEW d \in Int,
           Cardinality(Cached)' = Cardinality(Cached) + d
    PROVE  Counted' = Counted + d + Weight(l) - Weight(pc[p])
<1>1. /\ Cardinality(At(Counting))' = Cardinality(At(Counting))
             + Bit(l \in Counting) - Bit(pc[p] \in Counting)
      /\ Cardinality(At(Uncounting))' = Cardinality(At(Uncounting))
             + Bit(l \in Uncounting) - Bit(pc[p] \in Uncounting)
  BY GotoCounts
<1>2. /\ Bit(l \in Counting) \in Int /\ Bit(pc[p] \in Counting) \in Int
      /\ Bit(l \in Uncounting) \in Int /\ Bit(pc[p] \in Uncounting) \in Int
  BY DEF Bit
<1>3. Counted = Cardinality(Cached) - Cardinality(At(Counting)) + Cardinality(At(Uncounting))
  BY DEF Counted
<1>4. Counted' = Cardinality(Cached)' - Cardinality(At(Counting))'
                     + Cardinality(At(Uncounting))'
  BY DEF Counted
<1>5. /\ Weight(l) = Bit(l \in Uncounting) - Bit(l \in Counting)
      /\ Weight(pc[p]) = Bit(pc[p] \in Uncounting) - Bit(pc[p] \in Counting)
  BY DEF Weight
<1>6. /\ Cardinality(Cached) \in Int /\ Cardinality(At(Counting)) \in Int
      /\ Cardinality(At(Uncounting)) \in Int
  BY CountsType
<1> QED
  BY <1>1, <1>2, <1>3, <1>4, <1>5, <1>6

LEMMA SizeChanges ==
    ASSUME CacheType, NEW i
    PROVE  /\ Cardinality(Cached \cup {i}) = Cardinality(Cached) + Bit(i \notin Cached)
           /\ Cardinality(Cached \ {i}) = Cardinality(Cached) - Bit(i \in Cached)
<1>1. IsFiniteSet(Cached) /\ Cardinality(Cached) \in Nat
  BY CountsType DEF CacheType
<1>2. /\ Cardinality(Cached \cup {i})
             = IF i \in Cached THEN Cardinality(Cached) ELSE Cardinality(Cached) + 1
      /\ Cardinality(Cached \ {i})
             = IF i \in Cached THEN Cardinality(Cached) - 1 ELSE Cardinality(Cached)
  BY <1>1, FS_AddElement, FS_RemoveElement
<1>3. CASE i \in Cached
  BY <1>1, <1>2, <1>3 DEF Bit
<1>4. CASE i \notin Cached
  BY <1>1, <1>2, <1>4 DEF Bit
<1> QED
  BY <1>3, <1>4

LEMMA CountedType == ASSUME CacheType PROVE Counted \in Int /\ Counted >= - Cardinality(Procs)
BY CountsType, ModulusType DEF Counted

LEMMA CounterStands ==
    ASSUME CacheType, CacheType', CounterInv, UNCHANGED counter, Counted' = Counted
    PROVE  CounterInv'
<1>1. PICK k \in Int : Counted = counter + Modulus * k
  BY DEF CounterInv
<1>2. Counted' = counter' + Modulus * k
  BY <1>1
<1> QED
  BY <1>2 DEF CounterInv

LEMMA CounterInit == Init => CounterInv
<1> SUFFICES ASSUME Init PROVE CounterInv
  OBVIOUS
<1>1. Cached = {} /\ At(Counting) = {} /\ At(Uncounting) = {}
  BY DEF Init, Cached, At, Counting, Uncounting
<1>2. Counted = 0
  BY <1>1, FS_EmptySet DEF Counted
<1>3. Counted = counter + Modulus * 0
  BY <1>2, ModulusType DEF Init
<1> QED
  BY <1>3 DEF CounterInv

LEMMA CounterStep == CacheType /\ CacheType' /\ CounterInv /\ [Next]_vars => CounterInv'
<1> SUFFICES ASSUME CacheType, CacheType', CounterInv, [Next]_vars PROVE CounterInv'
  OBVIOUS
<1>0. /\ counter \in Nat /\ counter < Modulus /\ Modulus \in Nat \ {0}
      /\ Counted \in Int
      /\ Cardinality(Cached) \in Nat /\ pc \in [Procs -> PC]
      /\ victims \in [Procs -> SUBSET Ids] /\ id \in [Procs -> Ids \cup {NoId}]
  BY CountsType, CountedType, ModulusType DEF CacheType, TypeOK
<1>1. ASSUME NEW p \in Procs, NEW l, Goto(p, l), UNCHANGED <<cacheMap, counter>>,
             Weight(l) = 0, Weight(pc[p]) = 0
      PROVE  CounterInv'
  <2>1. Cardinality(Cached)' = Cardinality(Cached) + 0
    BY <1>0, <1>1 DEF Cached
  <2>2. Counted' = Counted + 0 + Weight(l) - Weight(pc[p])
    BY <1>1, <2>1, CountedMoves
  <2> QED
    BY <1>0, <1>1, <2>2, CounterStands
<1>2. ASSUME UNCHANGED <<cacheMap, counter, pc>> PROVE CounterInv'
  <2>1. Counted' = Counted
    BY <1>2 DEF Counted, Cached, At
  <2> QED
    BY <1>2, <2>1, CounterStands
<1>3. ASSUME NEW p \in Procs, NEW l, Goto(p, l), NEW i \in Ids, i \in Cached, Remove(i),
             UNCHANGED counter, Weight(l) = 1, Weight(pc[p]) = 0
      PROVE  CounterInv'
  <2>1. Cached' = Cached \ {i}
    BY <1>3, CachedChanges
  <2>2. Cardinality(Cached \ {i}) = Cardinality(Cached) - Bit(i \in Cached)
    BY SizeChanges
  <2>3. Bit(i \in Cached) = 1
    BY <1>3 DEF Bit
  <2>4. Cardinality(Cached)' = Cardinality(Cached) + (-1)
    BY <1>0, <2>1, <2>2, <2>3
  <2>5. Counted' = Counted + (-1) + Weight(l) - Weight(pc[p])
    BY <1>3, <2>4, CountedMoves
  <2> QED
    BY <1>0, <1>3, <2>5, CounterStands
<1>4. ASSUME NEW p \in Procs, NEW i \in Ids, NEW c \in Contents, Append_(p, i, c)
      PROVE  CounterInv'
  <2>1. Cached' = Cached \cup {i} /\ UNCHANGED counter /\ pc[p] = "idle"
    BY <1>4, CachedChanges DEF Append_
  <2>2. Cardinality(Cached \cup {i}) = Cardinality(Cached) + Bit(i \notin Cached)
    BY SizeChanges
  <2>3. CASE i \notin Cached
    <3>1. Goto(p, "count")
      BY <1>4, <2>3 DEF Append_
    <3>2. Cardinality(Cached)' = Cardinality(Cached) + 1
      BY <2>1, <2>2, <2>3 DEF Bit
    <3>3. Counted' = Counted + 1 + Weight("count") - Weight(pc[p])
      BY <3>1, <3>2, CountedMoves
    <3> QED
      BY <1>0, <2>1, <3>3, Weights, CounterStands
  <2>4. CASE i \in Cached
    <3>1. PICK l \in {"length", "idle"} : Goto(p, l)
      BY <1>4, <2>4 DEF Append_
    <3>2. Cardinality(Cached)' = Cardinality(Cached) + 0
      BY <1>0, <2>1, <2>2, <2>4 DEF Bit
    <3>3. Counted' = Counted + 0 + Weight(l) - Weight(pc[p])
      BY <3>1, <3>2, CountedMoves
    <3> QED
      BY <1>0, <2>1, <3>1, <3>3, Weights, CounterStands
  <2> QED
    BY <2>3, <2>4
<1>5. ASSUME NEW p \in Procs, CountNew(p) PROVE CounterInv'
  <2>1. /\ pc[p] = "count" /\ Goto(p, "length") /\ UNCHANGED cacheMap
        /\ counter' = (counter + 1) % Modulus
    BY <1>5 DEF CountNew
  <2>2. Cardinality(Cached)' = Cardinality(Cached) + 0
    BY <1>0, <2>1 DEF Cached
  <2>3. Counted' = Counted + 0 + Weight("length") - Weight(pc[p])
    BY <2>1, <2>2, CountedMoves
  <2>4. Counted' = Counted + 1
    BY <1>0, <2>1, <2>3, Weights
  <2>5. PICK k \in Int : Counted = counter + Modulus * k
    BY DEF CounterInv
  <2>6. (counter + 1) % Modulus = IF counter + 1 = Modulus THEN 0 ELSE counter + 1
    BY <1>0, ModUp
  <2>7. CASE counter + 1 = Modulus
    <3>1. Modulus * (k + 1) = Modulus * k + Modulus
      BY <1>0
    <3>2. Counted' = counter' + Modulus * (k + 1)
      BY <1>0, <2>1, <2>4, <2>5, <2>6, <2>7, <3>1
    <3> QED
      BY <3>2 DEF CounterInv
  <2>8. CASE counter + 1 # Modulus
    <3>1. Modulus * k \in Int
      BY <1>0
    <3>2. Counted' = counter' + Modulus * k
      BY <1>0, <2>1, <2>4, <2>5, <2>6, <2>8, <3>1
    <3> QED
      BY <3>2 DEF CounterInv
  <2> QED
    BY <2>7, <2>8
<1>6. ASSUME NEW p \in Procs, Uncount(p) PROVE CounterInv'
  <2>1. PICK l \in {"evict", "idle"} : Goto(p, l)
    BY <1>6 DEF Uncount
  <2>2. /\ Weight(pc[p]) = 1 /\ UNCHANGED cacheMap
        /\ counter' = (counter + Modulus - 1) % Modulus
    BY <1>6, Weights DEF Uncount
  <2>3. Cardinality(Cached)' = Cardinality(Cached) + 0
    BY <1>0, <2>2 DEF Cached
  <2>4. Counted' = Counted + 0 + Weight(l) - Weight(pc[p])
    BY <2>1, <2>3, CountedMoves
  <2>5. Counted' = Counted - 1
    BY <1>0, <2>1, <2>2, <2>4, Weights
  <2>6. PICK k \in Int : Counted = counter + Modulus * k
    BY DEF CounterInv
  <2>7. (counter + Modulus - 1) % Modulus = IF counter = 0 THEN Modulus - 1 ELSE counter - 1
    BY <1>0, ModDown
  <2>8. CASE counter = 0
    <3>1. Modulus * (k - 1) = Modulus * k - Modulus
      BY <1>0
    <3>2. Counted' = counter' + Modulus * (k - 1)
      BY <1>0, <2>2, <2>5, <2>6, <2>7, <2>8, <3>1
    <3> QED
      BY <3>2 DEF CounterInv
  <2>9. CASE counter # 0
    <3>1. Modulus * k \in Int
      BY <1>0
    <3>2. Counted' = counter' + Modulus * k
      BY <1>0, <2>2, <2>5, <2>6, <2>7, <2>9, <3>1
    <3> QED
      BY <3>2 DEF CounterInv
  <2> QED
    BY <2>8, <2>9
<1>7. ASSUME NEW p \in Procs, LoadLength(p) PROVE CounterInv'
  <2>1. PICK l \in {"snapshot", "idle"} : Goto(p, l)
    BY <1>7 DEF LoadLength
  <2>2. UNCHANGED <<cacheMap, counter>> /\ pc[p] = "length"
    BY <1>7 DEF LoadLength
  <2>3. Weight(l) = 0 /\ Weight(pc[p]) = 0
    BY <2>1, <2>2, Weights
  <2> QED
    BY <1>1, <2>1, <2>2, <2>3
<1>8. ASSUME NEW p \in Procs, Snapshot(p) PROVE CounterInv'
  <2>1. Goto(p, "evict") /\ UNCHANGED <<cacheMap, counter>> /\ pc[p] = "snapshot"
    BY <1>8 DEF Snapshot
  <2>2. Weight("evict") = 0 /\ Weight(pc[p]) = 0
    BY <2>1, Weights
  <2> QED
    BY <1>1, <2>1, <2>2
<1>9. ASSUME NEW p \in Procs, Evict(p) PROVE CounterInv'
  <2>1. PICK i \in victims[p] :
          IF i \in Cached THEN Remove(i) /\ Goto(p, "uncountVictim")
                          ELSE UNCHANGED <<cacheMap, log, pc>>
    BY <1>9 DEF Evict
  <2>2. pc[p] = "evict" /\ UNCHANGED counter /\ i \in Ids
    BY <1>0, <1>9 DEF Evict
  <2>3. CASE i \in Cached
    <3>1. Weight("uncountVictim") = 1 /\ Weight(pc[p]) = 0
      BY <2>2, Weights
    <3> QED
      BY <1>3, <2>1, <2>2, <2>3, <3>1
  <2>4. CASE i \notin Cached
    BY <1>2, <2>1, <2>2, <2>4
  <2> QED
    BY <2>3, <2>4
<1>10. ASSUME NEW p \in Procs, EndCleanUp(p) PROVE CounterInv'
  <2>1. Goto(p, "idle") /\ UNCHANGED <<cacheMap, counter>> /\ pc[p] = "evict"
    BY <1>10 DEF EndCleanUp
  <2>2. Weight("idle") = 0 /\ Weight(pc[p]) = 0
    BY <2>1, Weights
  <2> QED
    BY <1>1, <2>1, <2>2
<1>11. ASSUME NEW p \in Procs, NEW i \in Ids, FindExpired(p, i) PROVE CounterInv'
  <2>1. Goto(p, "expired") /\ UNCHANGED <<cacheMap, counter>> /\ pc[p] = "idle"
    BY <1>11 DEF FindExpired
  <2>2. Weight("expired") = 0 /\ Weight(pc[p]) = 0
    BY <2>1, Weights
  <2> QED
    BY <1>1, <2>1, <2>2
<1>12. ASSUME NEW p \in Procs, DeleteExpired(p) PROVE CounterInv'
  <2>1. pc[p] = "expired" /\ UNCHANGED counter
    BY <1>12 DEF DeleteExpired
  <2>2. Weight("uncountExpired") = 1 /\ Weight("idle") = 0 /\ Weight(pc[p]) = 0
    BY <2>1, Weights
  <2>3. CASE id[p] \in Cached
    <3>1. id[p] \in Ids /\ Remove(id[p]) /\ Goto(p, "uncountExpired")
      BY <1>0, <1>12, <2>3 DEF DeleteExpired, CacheType, TypeOK
    <3> QED
      BY <1>3, <2>1, <2>2, <2>3, <3>1
  <2>4. CASE id[p] \notin Cached
    <3>1. Goto(p, "idle") /\ UNCHANGED cacheMap
      BY <1>12, <2>4 DEF DeleteExpired
    <3> QED
      BY <1>1, <2>1, <2>2, <3>1
  <2> QED
    BY <2>3, <2>4
<1>13. CASE DayPasses \/ UNCHANGED vars
  BY <1>2, <1>13 DEF DayPasses, vars
<1> QED
  BY <1>4, <1>5, <1>6, <1>7, <1>8, <1>9, <1>10, <1>11, <1>12, <1>13 DEF Next

(***************************************************************************)
(* The counter and the map never drift apart, however many goroutines      *)
(* append, evict and delete expired messages together.                     *)
(***************************************************************************)
LEMMA CountedIsCounter == CacheType /\ CounterInv => CounterAgrees
<1> SUFFICES ASSUME CacheType, CounterInv PROVE CounterAgrees
  OBVIOUS
<1>1. PICK k \in Int : Counted = counter + Modulus * k
  BY DEF CounterInv
<1>2. Counted > - Modulus
  BY CountedType, ModulusType
<1>3. (Counted + Modulus) % Modulus = counter
  BY <1>1, <1>2, ModOfDrift, CountsType, CountedType, ModulusType
<1> QED
  BY <1>3 DEF CounterAgrees, Counted, Counting, Uncounting

THEOREM CounterIsRight == Spec => []CounterAgrees
<1>1. Init => CounterInv
  BY CounterInit
<1>2. CacheType /\ CacheType' /\ CounterInv /\ [Next]_vars => CounterInv'
  BY CounterStep
<1>3. CacheType /\ CounterInv => CounterAgrees
  BY CountedIsCounter
<1> QED
  BY <1>1, <1>2, <1>3, CacheIsTyped, PTL DEF Spec

(***************************************************************************)
(* The goroutines that are busy, and those of them in a set.               *)
(***************************************************************************)
LEMMA BoundType ==
    ASSUME NEW Q
    PROVE  Bound(Q) \in Nat /\ Bound(Q) <= CacheLength + Cardinality(Procs)
<1>1. Cardinality(At(Busy) \ Q) \in Nat /\ Cardinality(At(Busy) \ Q) <= Cardinality(Procs)
  BY AtFinite
<1> QED
  BY <1>1, ModulusType DEF Bound

LEMMA BoundMoves ==
    ASSUME CacheType, NEW p \in Procs, NEW l, Goto(p, l), NEW Q, p \notin Q
    PROVE  Bound(Q)' = Bound(Q) + Bit(l \in Busy) - Bit(pc[p] \in Busy)
<1>0. pc \in [Procs -> PC]
  BY DEF CacheType, TypeOK
<1>1. Cardinality(At(Busy) \ Q)' = Cardinality(At(Busy) \ Q)
          + (IF p \in Q THEN 0 ELSE Bit(l \in Busy) - Bit(pc[p] \in Busy))
  BY <1>0, GotoMoves
<1>2. Cardinality(At(Busy) \ Q) \in Nat /\ CacheLength \in Nat
  BY AtFinite, ModulusType
<1>3. Bit(l \in Busy) \in Int /\ Bit(pc[p] \in Busy) \in Int
  BY DEF Bit
<1>4. Bound(Q)' = CacheLength + Cardinality(At(Busy) \ Q)'
  BY DEF Bound
<1> QED
  BY <1>1, <1>2, <1>3, <1>4 DEF Bound

LEMMA GrowsBy ==
    ASSUME NEW S, NEW T, IsFiniteSet(S), NEW i, NEW d \in {0, 1},
           T \subseteq S \cup {i}, d = 0 => T \subseteq S
    PROVE  /\ Cardinality(S) \in Nat /\ Cardinality(T) \in Nat
           /\ Cardinality(T) <= Cardinality(S) + d
<1>1. Cardinality(S) \in Nat
  BY FS_CardinalityType
<1>2. CASE d = 0
  BY <1>1, <1>2, FS_Subset, FS_CardinalityType
<1>3. CASE d = 1
  <2>1. /\ IsFiniteSet(S \cup {i})
        /\ Cardinality(S \cup {i}) = IF i \in S THEN Cardinality(S) ELSE Cardinality(S) + 1
    BY FS_AddElement
  <2>2. IsFiniteSet(T) /\ Cardinality(T) <= Cardinality(S \cup {i})
    BY <2>1, FS_Subset
  <2>3. Cardinality(T) \in Nat
    BY <2>2, FS_CardinalityType
  <2> QED
    BY <1>1, <1>3, <2>1, <2>2, <2>3
<1> QED
  BY <1>2, <1>3

LEMMA LeavesType ==
    ASSUME CacheType, NEW p \in Procs
    PROVE  Leaves(p) \in Int
<1>1. IsFiniteSet(Cached) /\ Cardinality(Cached) \in Nat /\ amount[p] \in Int
  BY CountsType, ModulusType DEF CacheType, TypeOK
<1>2. Cardinality(Cached \ victims[p]) \in Nat
  BY <1>1, FS_Subset, FS_CardinalityType
<1> QED
  BY <1>1, <1>2 DEF Leaves

\* what a step of another goroutine does to what one leaves
LEMMA LeavesStays ==
    ASSUME CacheType, NEW q \in Procs,
           pc'[q] = pc[q], amount'[q] = amount[q], victims'[q] = victims[q],
           NEW i, NEW d \in {0, 1}, Cached' \subseteq Cached \cup {i},
           d = 0 => Cached' \subseteq Cached
    PROVE  Leaves(q)' <= Leaves(q) + d /\ Leaves(q)' \in Int
<1>1. IsFiniteSet(Cached)
  BY DEF CacheType
<1>2. /\ Cardinality(Cached) \in Nat /\ Cardinality(Cached') \in Nat
      /\ Cardinality(Cached') <= Cardinality(Cached) + d
  BY <1>1, GrowsBy
<1> DEFINE S == Cached \ victims[q]
           T == Cached' \ victims'[q]
<1>3. IsFiniteSet(S)
  BY <1>1, FS_Subset
<1>4. T \subseteq S \cup {i} /\ (d = 0 => T \subseteq S)
  OBVIOUS
<1>5. /\ Cardinality(S) \in Nat /\ Cardinality(T) \in Nat
      /\ Cardinality(T) <= Cardinality(S) + d
  <2> HIDE DEF S, T
  <2> QED
    BY <1>3, <1>4, GrowsBy
<1>6. CASE pc[q] = "snapshot"
  <2>1. Leaves(q) = Cardinality(Cached) - amount[q]
    BY <1>6 DEF Leaves
  <2>2. Leaves(q)' = Cardinality(Cached') - amount[q]
    BY <1>6 DEF Leaves
  <2>3. amount[q] \in Int
    BY ModulusType DEF CacheType, TypeOK
  <2> QED
    BY <1>2, <2>1, <2>2, <2>3
<1>7. CASE pc[q] # "snapshot"
  <2>1. Leaves(q) = Cardinality(S)
    BY <1>7 DEF Leaves
  <2>2. Leaves(q)' = Cardinality(T)
    BY <1>7 DEF Leaves
  <2> HIDE DEF S, T
  <2> QED
    BY <1>5, <2>1, <2>2
<1> QED
  BY <1>6, <1>7

\* a step of a goroutine p that leaves the others to their clean up
OthersStay(p) ==
    \A q \in Procs \ {p} : pc'[q] = pc[q] /\ amount'[q] = amount[q] /\ victims'[q] = victims[q]

LEMMA AnsweredStays ==
    ASSUME CacheType, NEW p \in Procs, OthersStay(p),
           NEW i, NEW d \in {0, 1}, Cached' \subseteq Cached \cup {i},
           d = 0 => Cached' \subseteq Cached,
           NEW Q, Q \subseteq Procs, Answered(Q),
           NEW b, b = Bound(Q)', b \in Int, Bound(Q) + d <= b,
           p \in Q => Leaves(p)' \in Int /\ (Leaves(p)' <= Leaves(p) \/ Leaves(p)' <= b)
    PROVE  Answered(Q)'
<1>1. IsFiniteSet(Cached) /\ Bound(Q) \in Int
  <2>1. IsFiniteSet(Cached)
    BY DEF CacheType
  <2>2. Bound(Q) \in Nat
    BY BoundType
  <2> QED
    BY <2>1, <2>2
<1>2. CASE Cardinality(Cached) <= Bound(Q)
  <2>1. /\ Cardinality(Cached) \in Nat /\ Cardinality(Cached') \in Nat
        /\ Cardinality(Cached') <= Cardinality(Cached) + d
    BY <1>1, GrowsBy
  <2>2. Cardinality(Cached') <= b
    BY <1>1, <1>2, <2>1
  <2> QED
    BY <2>2 DEF Answered
<1>3. ASSUME NEW q \in Q, Leaves(q) <= Bound(Q) PROVE Answered(Q)'
  <2>0. q \in Procs /\ Leaves(q) \in Int
    BY LeavesType
  <2>1. CASE q # p
    <3>1. Leaves(q)' <= Leaves(q) + d /\ Leaves(q)' \in Int
      BY <2>0, <2>1, LeavesStays DEF OthersStay
    <3>2. Leaves(q)' <= b
      BY <1>1, <1>3, <2>0, <3>1
    <3> QED
      BY <3>2 DEF Answered
  <2>2. CASE q = p
    <3>1. Leaves(p)' <= b
      BY <1>1, <1>3, <2>0, <2>2
    <3> QED
      BY <2>2, <3>1 DEF Answered
  <2> QED
    BY <2>1, <2>2
<1> QED
  BY <1>2, <1>3 DEF Answered

\* A step of a goroutine that is not at its clean up.
LEMMA CleanOutside ==
    ASSUME CacheType, CleanInv, NEW p \in Procs, NEW l, Goto(p, l), OthersStay(p),
           pc[p] \notin Cleaning, l \notin Cleaning,
           NEW i, NEW d \in {0, 1}, Cached' \subseteq Cached \cup {i},
           d = 0 => Cached' \subseteq Cached,
           Bit(l \in Busy) - Bit(pc[p] \in Busy) >= d
    PROVE  CleanInv'
<1> SUFFICES ASSUME CacheLength > 0, NEW Q \in SUBSET At(Cleaning)' PROVE Answered(Q)'
  BY DEF CleanInv
<1>1. pc' = [pc EXCEPT ![p] = l] /\ pc \in [Procs -> PC]
  BY DEF Goto, CacheType, TypeOK
<1>2. Q \subseteq At(Cleaning) /\ p \notin Q /\ Q \subseteq Procs
  BY <1>1 DEF At
<1>3. Answered(Q)
  BY <1>2 DEF CleanInv
<1> DEFINE b == Bound(Q) + Bit(l \in Busy) - Bit(pc[p] \in Busy)
<1>4. b = Bound(Q)'
  BY <1>2, BoundMoves
<1>5. Bound(Q) \in Nat
  BY BoundType
<1>6. Bit(l \in Busy) \in Int /\ Bit(pc[p] \in Busy) \in Int
  BY DEF Bit
<1>7. b \in Int /\ Bound(Q) + d <= b
  BY <1>5, <1>6
<1> HIDE DEF b
<1> QED
  BY <1>2, <1>3, <1>4, <1>7, AnsweredStays

\* A step of the clean up, which is at it before and afterwards.
LEMMA CleanInside ==
    ASSUME CacheType, CleanInv, NEW p \in Procs, OthersStay(p),
           pc' \in [Procs -> PC], pc[p] \in Cleaning, pc'[p] \in Cleaning,
           Cached' \subseteq Cached,
           Leaves(p)' \in Int, Leaves(p)' <= Leaves(p) \/ Leaves(p)' <= 0
    PROVE  CleanInv'
<1> SUFFICES ASSUME CacheLength > 0, NEW Q \in SUBSET At(Cleaning)' PROVE Answered(Q)'
  BY DEF CleanInv
<1>1. At(Cleaning)' = At(Cleaning) /\ At(Busy)' = At(Busy)
  BY DEF At, OthersStay, Busy, Cleaning
<1>2. Answered(Q) /\ Q \subseteq Procs
  BY <1>1 DEF CleanInv, At
<1> DEFINE b == Bound(Q)
<1>3. b = Bound(Q)'
  BY <1>1 DEF Bound
<1>4. b \in Nat
  BY BoundType
<1>5. b \in Int /\ Bound(Q) + 0 <= b
  BY <1>4
<1>6. Leaves(p)' <= Leaves(p) \/ Leaves(p)' <= b
  BY <1>4
<1> HIDE DEF b
<1>7. 0 \in {0, 1} /\ Cached' \subseteq Cached \cup {p} /\ (0 = 0 => Cached' \subseteq Cached)
  OBVIOUS
<1> QED
  BY <1>2, <1>3, <1>5, <1>6, <1>7, AnsweredStays

LEMMA CleanStands ==
    ASSUME CleanInv, UNCHANGED <<cacheMap, pc, amount, victims>>
    PROVE  CleanInv'
<1>1. Cached' = Cached /\ At(Cleaning)' = At(Cleaning) /\ At(Busy)' = At(Busy)
  BY DEF Cached, At
<1>2. ASSUME NEW Q PROVE Answered(Q)' <=> Answered(Q)
  <2>1. Bound(Q)' = Bound(Q)
    BY <1>1 DEF Bound
  <2>2. \A p \in Q : Leaves(p)' = Leaves(p)
    BY <1>1 DEF Leaves
  <2> QED
    BY <1>1, <2>1, <2>2 DEF Answered
<1> QED
  BY <1>1, <1>2 DEF CleanInv

LEMMA CleanInit == Init => CleanInv
<1> SUFFICES ASSUME Init, CacheLength > 0, NEW Q PROVE Answered(Q)
  BY DEF CleanInv
<1>1. Cardinality(Cached) = 0
  BY FS_EmptySet DEF Init, Cached
<1>2. Bound(Q) \in Nat
  BY BoundType
<1> QED
  BY <1>1, <1>2 DEF Answered

LEMMA ModOnce ==
    ASSUME NEW n \in Nat, NEW M \in Nat \ {0}, n < 2 * M
    PROVE  n % M = IF n < M THEN n ELSE n - M
<1>1. CASE n < M
  <2>1. M * 0 + n = n /\ (M * 0 + n) % M = n
    BY <1>1, ModOfMultiple
  <2> QED
    BY <1>1, <2>1
<1>2. CASE n >= M
  <2>1. M * 1 + (n - M) = n /\ (M * 1 + (n - M)) % M = n - M
    BY <1>2, ModOfMultiple
  <2> QED
    BY <1>2, <2>1
<1> QED
  BY <1>1, <1>2

\* What int(amount) says: how many messages are too many.
LEMMA AmountIsRight ==
    ASSUME CacheType, CounterInv, CleanInv, CacheLength > 0,
           NEW a, a = (counter - CacheLength + Modulus) % Modulus
    PROVE  /\ Positive(a) => a = Counted - CacheLength
           /\ ~ Positive(a) => Counted <= CacheLength
<1>1. /\ counter \in Nat /\ counter < Modulus /\ Modulus \in Nat \ {0}
      /\ Counted \in Int /\ Counted >= - Cardinality(Procs)
      /\ CacheLength \in Nat /\ Cardinality(Procs) \in Nat
      /\ Modulus > 4 * (CacheLength + Cardinality(Procs) + 1)
  BY CountsType, CountedType, ModulusType
<1>2. Counted <= CacheLength + 2 * Cardinality(Procs)
  <2>1. Answered({})
    BY DEF CleanInv
  <2>2. Cardinality(Cached) <= Bound({})
    BY <2>1 DEF Answered
  <2>3. Bound({}) \in Nat /\ Bound({}) <= CacheLength + Cardinality(Procs)
    BY BoundType
  <2> QED
    BY <1>1, <2>2, <2>3, CountsType DEF Counted
<1>3. PICK k \in Int : Counted = counter + Modulus * k
  BY DEF CounterInv
<1> DEFINE x == Counted - CacheLength
<1>4. /\ x \in Int /\ x >= - (Cardinality(Procs) + CacheLength)
      /\ x <= 2 * Cardinality(Procs)
  BY <1>1, <1>2
<1>5. x = (counter - CacheLength) + Modulus * k
  <2>1. Modulus * k \in Int
    BY <1>1
  <2> QED
    BY <1>1, <1>3, <2>1
<1>6. (Modulus - 1) \div 2 \in Nat /\ (Modulus - 1) \div 2 >= 2 * Cardinality(Procs)
  BY <1>1
<1>7. PICK j \in Int : a = x + Modulus * j
  <2>1. /\ counter - CacheLength + Modulus \in Nat
        /\ counter - CacheLength + Modulus < 2 * Modulus
    BY <1>1
  <2>2. a = IF counter - CacheLength < 0 THEN counter - CacheLength + Modulus
                                         ELSE counter - CacheLength
    <3> DEFINE y == counter - CacheLength + Modulus
    <3>1. y \in Nat /\ y < 2 * Modulus /\ a = y % Modulus
      BY <2>1
    <3> HIDE DEF y
    <3>2. a = IF y < Modulus THEN y ELSE y - Modulus
      BY <1>1, <3>1, ModOnce
    <3> QED
      BY <1>1, <3>2 DEF y
  <2>3. a = x + Modulus * (0 - k) \/ a = x + Modulus * (1 - k)
    <3>1. Modulus * (0 - k) = - (Modulus * k) /\ Modulus * (1 - k) = Modulus - Modulus * k
      BY <1>1
    <3>2. Modulus * k \in Int
      BY <1>1
    <3> QED
      BY <1>1, <1>4, <1>5, <2>2, <3>1, <3>2
  <2>4. 0 - k \in Int /\ 1 - k \in Int
    OBVIOUS
  <2> QED
    BY <2>3, <2>4
<1>8. a \in Nat /\ a < Modulus
  BY <1>1
<1> HIDE DEF x
<1>9. CASE x >= 0
  <2>1. x < Modulus
    BY <1>1, <1>4
  <2>2. j = 0
    <3>1. ASSUME j >= 1 PROVE FALSE
      <4>1. Modulus * j >= Modulus
        BY <1>1, <3>1
      <4>2. Modulus * j \in Int
        BY <1>1
      <4> QED
        BY <1>1, <1>4, <1>7, <1>8, <1>9, <4>1, <4>2
    <3>2. ASSUME j <= -1 PROVE FALSE
      <4>1. Modulus * j <= - Modulus
        BY <1>1, <3>2
      <4>2. Modulus * j \in Int
        BY <1>1
      <4> QED
        BY <1>1, <1>4, <1>7, <1>8, <2>1, <4>1, <4>2
    <3> QED
      BY <3>1, <3>2
  <2>3. a = x
    BY <1>1, <1>4, <1>7, <2>2
  <2>4. Positive(a) <=> x > 0
    BY <1>1, <1>4, <1>6, <1>9, <2>3 DEF Positive
  <2> QED
    BY <1>1, <1>9, <2>3, <2>4 DEF x
<1>10. CASE x < 0
  <2>1. j >= 1
    <3>1. ASSUME j <= 0 PROVE FALSE
      <4>1. Modulus * j <= 0
        BY <1>1, <3>1
      <4>2. Modulus * j \in Int
        BY <1>1
      <4> QED
        BY <1>1, <1>4, <1>7, <1>8, <1>10, <4>1, <4>2
    <3> QED
      BY <3>1
  <2>2. Modulus * j >= Modulus /\ Modulus * j \in Int
    BY <1>1, <2>1
  <2>3. a > (Modulus - 1) \div 2
    BY <1>1, <1>4, <1>7, <2>2
  <2> QED
    BY <1>1, <1>8, <1>10, <2>3 DEF x, Positive
<1> QED
  BY <1>4, <1>9, <1>10

LEMMA BusyBits ==
    /\ \A l \in Busy : Bit(l \in Busy) = 1
    /\ \A l \in {"idle", "expired", "uncountExpired"} : Bit(l \in Busy) = 0
BY DEF Bit, Busy

LEMMA CleanStep ==
    CacheType /\ CacheType' /\ CounterInv /\ CleanInv /\ [Next]_vars => CleanInv'
<1> SUFFICES ASSUME CacheType, CacheType', CounterInv, CleanInv, [Next]_vars PROVE CleanInv'
  OBVIOUS
<1>0. /\ IsFiniteSet(Cached) /\ Cardinality(Cached) \in Nat
      /\ pc \in [Procs -> PC] /\ pc' \in [Procs -> PC]
      /\ amount \in [Procs -> 0..(Modulus - 1)]
      /\ victims \in [Procs -> SUBSET Ids] /\ id \in [Procs -> Ids \cup {NoId}]
  BY CountsType DEF CacheType, TypeOK
<1>1. ASSUME NEW p \in Procs, NEW l, Goto(p, l), UNCHANGED <<amount, victims>>,
             Cached' \subseteq Cached, pc[p] \notin Cleaning, l \notin Cleaning,
             Bit(l \in Busy) >= Bit(pc[p] \in Busy)
      PROVE  CleanInv'
  <2>1. OthersStay(p)
    BY <1>0, <1>1 DEF OthersStay, Goto
  <2>2. Bit(l \in Busy) - Bit(pc[p] \in Busy) >= 0
    BY <1>1 DEF Bit
  <2>3. 0 \in {0, 1} /\ Cached' \subseteq Cached \cup {p} /\ (0 = 0 => Cached' \subseteq Cached)
    BY <1>1
  <2> QED
    BY <1>1, <2>1, <2>2, <2>3, CleanOutside
<1>2. ASSUME NEW p \in Procs, NEW i \in Ids, NEW c \in Contents, Append_(p, i, c)
      PROVE  CleanInv'
  <2>1. /\ Cached' = Cached \cup {i} /\ UNCHANGED <<amount, victims>>
        /\ pc[p] = "idle" /\ pc[p] \notin Cleaning
    BY <1>2, CachedChanges DEF Append_, Cleaning
  <2>2. CASE i \notin Cached
    <3>1. Goto(p, "count") /\ "count" \notin Cleaning /\ "count" \in Busy
      BY <1>2, <2>2 DEF Append_, Cleaning, Busy
    <3>2. Bit("count" \in Busy) - Bit(pc[p] \in Busy) >= 1
      BY <2>1, <3>1, BusyBits
    <3>3. OthersStay(p)
      BY <1>0, <2>1, <3>1 DEF OthersStay, Goto
    <3>4. 1 \in {0, 1} /\ Cached' \subseteq Cached \cup {i} /\ (1 = 0 => Cached' \subseteq Cached)
      BY <2>1
    <3> QED
      BY <2>1, <3>1, <3>2, <3>3, <3>4, CleanOutside
  <2>3. CASE i \in Cached
    <3>1. PICK l \in {"length", "idle"} : Goto(p, l)
      BY <1>2, <2>3 DEF Append_
    <3>2. l \notin Cleaning /\ Cached' \subseteq Cached
      BY <2>1, <2>3 DEF Cleaning
    <3>3. Bit(l \in Busy) >= Bit(pc[p] \in Busy)
      BY <2>1 DEF Bit, Busy
    <3> QED
      BY <1>1, <2>1, <3>1, <3>2, <3>3
  <2> QED
    BY <2>2, <2>3
<1>3. ASSUME NEW p \in Procs, CountNew(p) PROVE CleanInv'
  <2>1. /\ Goto(p, "length") /\ UNCHANGED <<amount, victims>> /\ Cached' \subseteq Cached
        /\ pc[p] \notin Cleaning /\ "length" \notin Cleaning
    BY <1>3 DEF CountNew, Cached, Cleaning
  <2>2. Bit("length" \in Busy) >= Bit(pc[p] \in Busy)
    BY <1>3 DEF CountNew, Bit, Busy
  <2> QED
    BY <1>1, <2>1, <2>2
<1>4. ASSUME NEW p \in Procs, LoadLength(p), CacheLength > 0 PROVE CleanInv'
  <2> DEFINE a == (counter - CacheLength + Modulus) % Modulus
  <2>1. /\ Positive(a) => a = Counted - CacheLength
        /\ ~ Positive(a) => Counted <= CacheLength
    BY <1>4, AmountIsRight
  <2>2. /\ pc[p] = "length" /\ UNCHANGED <<cacheMap, victims>>
        /\ amount' = [amount EXCEPT ![p] = a]
        /\ Goto(p, IF Positive(a) THEN "snapshot" ELSE "idle")
    BY <1>4 DEF LoadLength
  <2> HIDE DEF a
  <2>3. Cached' = Cached /\ OthersStay(p)
    BY <1>0, <2>2 DEF Cached, OthersStay, Goto
  <2>4. /\ Cardinality(At(Counting)) \in Nat /\ Cardinality(At(Uncounting)) \in Nat
        /\ CacheLength \in Nat
        /\ Counted = Cardinality(Cached) - Cardinality(At(Counting))
                         + Cardinality(At(Uncounting))
    BY CountsType, ModulusType DEF Counted
  <2>5. SUFFICES ASSUME NEW Q \in SUBSET At(Cleaning)' PROVE Answered(Q)'
    BY DEF CleanInv
  <2>6. CASE Positive(a)
    <3>1. Goto(p, "snapshot")
      BY <2>2, <2>6
    <3>2. /\ At(Cleaning)' = At(Cleaning) \cup {p} /\ p \notin At(Cleaning)
          /\ At(Busy)' = At(Busy)
      BY <1>0, <2>2, <3>1 DEF At, Goto, Cleaning, Busy
    <3>3. Bound(Q)' = Bound(Q) /\ Bound(Q) \in Nat
      <4>1. Bound(Q) \in Nat
        BY BoundType
      <4> QED
        BY <3>2, <4>1 DEF Bound
    <3>4. CASE p \in Q
      <4>1. CacheLength + Cardinality(At(Counting)) <= Bound(Q)
        <5>1. At(Counting) \subseteq At(Busy) \ Q
          BY <2>2, <3>2 DEF At, Counting, Busy, Cleaning
        <5>2. IsFiniteSet(At(Busy) \ Q) /\ Cardinality(At(Busy) \ Q) \in Nat
          BY AtFinite
        <5>3. Cardinality(At(Counting)) <= Cardinality(At(Busy) \ Q)
          BY <5>1, <5>2, FS_Subset
        <5> QED
          BY <2>4, <5>2, <5>3 DEF Bound
      <4>2. Leaves(p)' = Cardinality(Cached) - a
        <5>1. pc'[p] = "snapshot" /\ amount'[p] = a
          BY <1>0, <2>2, <3>1 DEF Goto
        <5> QED
          BY <2>3, <5>1 DEF Leaves
      <4>3. Leaves(p)' <= Bound(Q)
        BY <1>0, <2>1, <2>4, <2>6, <3>3, <4>1, <4>2
      <4>4. Leaves(p)' <= Bound(Q)'
        BY <3>3, <4>3
      <4> QED
        BY <3>4, <4>4 DEF Answered
    <3>5. CASE p \notin Q
      <4>1. Answered(Q) /\ Q \subseteq Procs
        BY <1>4, <3>2, <3>5 DEF CleanInv, At
      <4>2. \A q \in Q : Leaves(q)' = Leaves(q)
        BY <2>3, <3>5, <4>1 DEF Leaves, OthersStay
      <4> QED
        BY <2>3, <3>3, <4>1, <4>2 DEF Answered
    <3> QED
      BY <3>4, <3>5
  <2>7. CASE ~ Positive(a)
    <3>1. Goto(p, "idle")
      BY <2>2, <2>7
    <3>2. Cardinality(Cached) <= CacheLength + Cardinality(At(Counting))
      BY <1>0, <2>1, <2>4, <2>7
    <3>3. At(Counting) \subseteq At(Busy)' \ Q
      BY <1>0, <2>2, <3>1 DEF At, Counting, Busy, Cleaning, Goto
    <3>4. IsFiniteSet(At(Busy)' \ Q) /\ Cardinality(At(Busy)' \ Q) \in Nat
      <4>1. At(Busy)' \ Q \subseteq Procs /\ IsFiniteSet(Procs)
        BY CacheAssumption DEF At
      <4> QED
        BY <4>1, FS_Subset, FS_CardinalityType
    <3>5. Cardinality(At(Counting)) <= Cardinality(At(Busy)' \ Q)
      BY <3>3, <3>4, FS_Subset
    <3>6. Bound(Q)' = CacheLength + Cardinality(At(Busy)' \ Q)
      BY DEF Bound
    <3>7. Cardinality(Cached) <= Bound(Q)'
      BY <1>0, <2>4, <3>2, <3>4, <3>5, <3>6
    <3> QED
      BY <2>3, <3>7 DEF Answered
  <2> QED
    BY <2>6, <2>7
<1>5. ASSUME NEW p \in Procs, Snapshot(p) PROVE CleanInv'
  <2>1. PICK S \in SUBSET Cached :
          /\ \/ Cardinality(S) = amount[p]
             \/ S = Cached /\ Cardinality(S) < amount[p]
          /\ victims' = [victims EXCEPT ![p] = S]
    BY <1>5 DEF Snapshot
  <2>2. pc[p] = "snapshot" /\ Goto(p, "evict") /\ UNCHANGED <<cacheMap, amount>>
    BY <1>5 DEF Snapshot
  <2>3. /\ OthersStay(p) /\ Cached' = Cached /\ pc'[p] = "evict"
        /\ pc[p] \in Cleaning /\ pc'[p] \in Cleaning
    BY <1>0, <2>1, <2>2 DEF OthersStay, Cached, Goto, Cleaning
  <2>4. Leaves(p)' = Cardinality(Cached \ S)
    BY <1>0, <2>1, <2>3 DEF Leaves
  <2>5. Leaves(p) = Cardinality(Cached) - amount[p]
    BY <2>2 DEF Leaves
  <2>6. IsFiniteSet(S) /\ Cardinality(S) \in Nat
    BY <1>0, FS_Subset, FS_CardinalityType
  <2>7. Cardinality(Cached \ S) = Cardinality(Cached) - Cardinality(S)
    <3>1. Cached \cap S = S
      OBVIOUS
    <3> QED
      BY <1>0, <2>6, <3>1, FS_Difference
  <2>8. Leaves(p)' \in Int /\ (Leaves(p)' <= Leaves(p) \/ Leaves(p)' <= 0)
    <3>1. CASE Cardinality(S) = amount[p]
      BY <1>0, <2>4, <2>5, <2>6, <2>7, <3>1
    <3>2. CASE S = Cached
      BY <1>0, <2>4, <2>6, <2>7, <3>2
    <3> QED
      BY <2>1, <3>1, <3>2
  <2> QED
    BY <1>0, <2>3, <2>8, CleanInside
<1>6. ASSUME NEW p \in Procs, Evict(p) PROVE CleanInv'
  <2>1. PICK i \in victims[p] :
          /\ victims' = [victims EXCEPT ![p] = @ \ {i}]
          /\ IF i \in Cached
               THEN Remove(i) /\ Goto(p, "uncountVictim")
               ELSE UNCHANGED <<cacheMap, log, pc>>
    BY <1>6 DEF Evict
  <2>2. pc[p] = "evict" /\ UNCHANGED amount /\ i \in Ids
    BY <1>0, <1>6 DEF Evict
  <2>3. /\ Cached' = Cached \ {i} /\ pc'[p] \in {"evict", "uncountVictim"}
        /\ \A q \in Procs \ {p} : pc'[q] = pc[q]
    <3>1. CASE i \in Cached
      BY <1>0, <2>1, <2>2, <3>1, CachedChanges DEF Goto
    <3>2. CASE i \notin Cached
      BY <2>1, <2>2, <3>2 DEF Cached
    <3> QED
      BY <3>1, <3>2
  <2>4. OthersStay(p) /\ pc[p] \in Cleaning /\ pc'[p] \in Cleaning
    BY <1>0, <2>1, <2>2, <2>3 DEF OthersStay, Cleaning
  <2>5. Leaves(p)' = Cardinality(Cached' \ victims'[p])
    BY <2>3 DEF Leaves
  <2>6. Cached' \ victims'[p] = Cached \ victims[p]
    BY <1>0, <2>1, <2>3
  <2>7. Leaves(p) = Cardinality(Cached \ victims[p])
    BY <2>2 DEF Leaves
  <2>8. Leaves(p)' \in Int /\ Leaves(p)' <= Leaves(p)
    BY <2>5, <2>6, <2>7, LeavesType
  <2>9. Cached' \subseteq Cached
    BY <2>3
  <2> QED
    BY <1>0, <2>4, <2>8, <2>9, CleanInside
<1>7. ASSUME NEW p \in Procs, EndCleanUp(p), CacheLength > 0 PROVE CleanInv'
  <2>1. /\ pc[p] = "evict" /\ victims[p] = {} /\ Goto(p, "idle")
        /\ UNCHANGED <<cacheMap, amount, victims>>
    BY <1>7 DEF EndCleanUp
  <2>2. Cached' = Cached /\ OthersStay(p)
    BY <1>0, <2>1 DEF Cached, OthersStay, Goto
  <2>3. SUFFICES ASSUME NEW Q \in SUBSET At(Cleaning)' PROVE Answered(Q)'
    BY DEF CleanInv
  <2>4. /\ p \notin Q /\ Q \cup {p} \subseteq At(Cleaning) /\ Q \subseteq Procs
        /\ pc[p] \in Busy
    BY <1>0, <2>1 DEF At, Goto, Cleaning, Busy
  <2>5. Answered(Q \cup {p})
    BY <1>7, <2>4 DEF CleanInv
  <2>6. Bound(Q \cup {p}) = Bound(Q)'
    <3>1. At(Busy) \ (Q \cup {p}) = At(Busy)' \ Q
      BY <1>0, <2>1 DEF At, Goto, Busy
    <3> QED
      BY <3>1 DEF Bound
  <2>7. CASE Cardinality(Cached) <= Bound(Q \cup {p})
    BY <2>2, <2>6, <2>7 DEF Answered
  <2>8. ASSUME NEW q \in Q, Leaves(q) <= Bound(Q \cup {p}) PROVE Answered(Q)'
    <3>1. Leaves(q)' = Leaves(q)
      BY <2>2, <2>4 DEF Leaves, OthersStay
    <3>2. Leaves(q)' <= Bound(Q)'
      BY <2>6, <2>8, <3>1
    <3> QED
      BY <3>2 DEF Answered
  <2>9. CASE Leaves(p) <= Bound(Q \cup {p})
    <3>1. Cached \ {} = Cached
      OBVIOUS
    <3>2. Leaves(p) = Cardinality(Cached)
      BY <2>1, <3>1 DEF Leaves
    <3> QED
      BY <2>7, <2>9, <3>2
  <2> QED
    BY <2>5, <2>7, <2>8, <2>9 DEF Answered
<1>8. ASSUME NEW p \in Procs, NEW i \in Ids, FindExpired(p, i) PROVE CleanInv'
  <2>1. /\ Goto(p, "expired") /\ UNCHANGED <<amount, victims>> /\ Cached' \subseteq Cached
        /\ pc[p] \notin Cleaning /\ "expired" \notin Cleaning
    BY <1>8 DEF FindExpired, Cached, Cleaning
  <2>2. Bit("expired" \in Busy) >= Bit(pc[p] \in Busy)
    BY <1>8 DEF FindExpired, Bit, Busy
  <2> QED
    BY <1>1, <2>1, <2>2
<1>9. ASSUME NEW p \in Procs, DeleteExpired(p) PROVE CleanInv'
  <2>1. PICK l \in {"uncountExpired", "idle"} : Goto(p, l)
    BY <1>9 DEF DeleteExpired
  <2>2. /\ UNCHANGED <<amount, victims>> /\ pc[p] = "expired"
        /\ pc[p] \notin Cleaning /\ l \notin Cleaning
    BY <1>9 DEF DeleteExpired, Cleaning
  <2>3. Cached' \subseteq Cached
    <3>1. CASE id[p] \in Cached
      <4>1. id[p] \in Ids /\ Remove(id[p])
        BY <1>9, <3>1 DEF DeleteExpired, CacheType, TypeOK
      <4> QED
        BY <4>1, CachedChanges
    <3>2. CASE id[p] \notin Cached
      BY <1>9, <3>2 DEF DeleteExpired, Cached
    <3> QED
      BY <3>1, <3>2
  <2>4. Bit(l \in Busy) >= Bit(pc[p] \in Busy)
    BY <2>2 DEF Bit, Busy
  <2> QED
    BY <1>1, <2>1, <2>2, <2>3, <2>4
<1>10. ASSUME NEW p \in Procs, Uncount(p) PROVE CleanInv'
  <2>1. /\ UNCHANGED <<cacheMap, amount, victims>> /\ Cached' = Cached
        /\ Goto(p, IF pc[p] = "uncountVictim" THEN "evict" ELSE "idle")
    BY <1>10 DEF Uncount, Cached
  <2>2. CASE pc[p] = "uncountVictim"
    <3>1. /\ OthersStay(p) /\ pc'[p] = "evict"
          /\ pc[p] \in Cleaning /\ pc'[p] \in Cleaning
      BY <1>0, <2>1, <2>2 DEF OthersStay, Goto, Cleaning
    <3>2. Leaves(p)' = Leaves(p)
      BY <2>1, <2>2, <3>1 DEF Leaves
    <3>3. Leaves(p)' \in Int /\ Leaves(p)' <= Leaves(p)
      BY <3>2, LeavesType
    <3> QED
      BY <1>0, <2>1, <3>1, <3>3, CleanInside
  <2>3. CASE pc[p] # "uncountVictim"
    <3>1. /\ pc[p] = "uncountExpired" /\ Goto(p, "idle")
          /\ pc[p] \notin Cleaning /\ "idle" \notin Cleaning
      BY <1>10, <2>1, <2>3 DEF Uncount, Cleaning
    <3>2. Bit("idle" \in Busy) >= Bit(pc[p] \in Busy)
      BY <3>1 DEF Bit, Busy
    <3> QED
      BY <1>1, <2>1, <3>1, <3>2
  <2> QED
    BY <2>2, <2>3
<1>11. CASE DayPasses \/ UNCHANGED vars
  BY <1>11, CleanStands DEF DayPasses, vars
<1>12. CASE ~ (CacheLength > 0)
  BY <1>12 DEF CleanInv
<1> QED
  BY <1>2, <1>3, <1>4, <1>5, <1>6, <1>7, <1>8, <1>9, <1>10, <1>11, <1>12 DEF Next

(***************************************************************************)
(* CACHELENGTH holds, up to the messages of the goroutines that have not   *)
(* ended their clean up, however many evict each other's messages.         *)
(***************************************************************************)
THEOREM LengthHolds == Spec => []LengthIsBounded
<1>1. Init => CounterInv /\ CleanInv
  BY CounterInit, CleanInit
<1>2. CacheType /\ CacheType' /\ CounterInv /\ CleanInv /\ [Next]_vars
          => CounterInv' /\ CleanInv'
  BY CounterStep, CleanStep
<1>3. CleanInv => LengthIsBounded
  <2> SUFFICES ASSUME CleanInv, CacheLength > 0
               PROVE  Cardinality(Cached) <= CacheLength + Cardinality(At(Busy))
    BY DEF LengthIsBounded, Busy
  <2>1. Answered({})
    BY DEF CleanInv
  <2>2. At(Busy) \ {} = At(Busy)
    OBVIOUS
  <2> QED
    BY <2>1, <2>2 DEF Answered, Bound
<1> QED
  BY <1>1, <1>2, <1>3, CacheIsTyped, PTL DEF Spec

(***************************************************************************)
(* The history of an id.  As long as nothing was triggered and the message *)
(* stayed, every content has the text of the one before it; so a content   *)
(* that was triggered is still known by its text when it comes again.      *)
(***************************************************************************)
Denied(e) == ~ e.triggered /\ e.what.kind # "removed"

Repeats(s, k, n) ==
    /\ k < n /\ s[n].triggered /\ s[k].triggered
    /\ s[n].what = s[k].what /\ s[n].what.kind # "other"
    /\ \A m \in (k + 1)..(n - 1) : Denied(s[m])

\* DuplicatesAreDenied of one history
Denies(s) ==
    \A k, n \in 1..Len(s) : Repeats(s, k, n) =>
        \E m \in (k + 1)..(n - 1) : /\ s[m].what.kind = "extended"
                                    /\ s[m].what.fields # s[n].what.fields

KeepsText(s) ==
    \A k \in 1..Len(s) :
        k < Len(s) /\ (\A m \in (k + 1)..Len(s) : Denied(s[m])) =>
            /\ s[k].what.text = s[Len(s)].what.text
            /\ s[Len(s)].what.kind # "other"

LastIs(s, i) ==
    IF i \in Cached
      THEN Len(s) > 0 /\ s[Len(s)].what = WithoutDelay(cacheMap[i].content)
      ELSE Len(s) = 0 \/ s[Len(s)] = Removed

LogInv == \A i \in Ids : KeepsText(log[i]) /\ Denies(log[i]) /\ LastIs(log[i], i)

LEMMA TextKept ==
    ASSUME NEW s \in Seq(Entries), NEW e \in Entries, KeepsText(s),
           Denied(e) => /\ Len(s) > 0 /\ e.what.text = s[Len(s)].what.text
                        /\ e.what.kind # "other"
    PROVE  KeepsText(Append(s, e))
<1> DEFINE t == Append(s, e)
           n == Len(s)
<1>1. n \in Nat /\ Len(t) = n + 1 /\ t[n + 1] = e /\ \A m \in 1..n : t[m] = s[m]
  OBVIOUS
<1> SUFFICES ASSUME NEW k \in 1..(n + 1), k < n + 1, \A m \in (k + 1)..(n + 1) : Denied(t[m])
             PROVE  t[k].what.text = e.what.text /\ e.what.kind # "other"
  BY <1>1 DEF KeepsText
<1> HIDE DEF t, n
<1>2. n + 1 \in (k + 1)..(n + 1) /\ k \in 1..n
  BY <1>1
<1>3. Denied(e)
  BY <1>1, <1>2
<1>4. e.what.text = s[n].what.text /\ e.what.kind # "other"
  BY <1>3 DEF n
<1>5. CASE k = n
  BY <1>1, <1>2, <1>4, <1>5
<1>6. CASE k # n
  <2>1. k < n /\ \A m \in (k + 1)..n : Denied(s[m])
    BY <1>1, <1>2, <1>6
  <2>2. s[k].what.text = s[n].what.text
    BY <1>2, <2>1 DEF KeepsText, n
  <2> QED
    BY <1>1, <1>2, <1>4, <2>2
<1> QED
  BY <1>5, <1>6

\* the comparison of IsDuplicate, of what the history says
SameWhat(v, w) ==
    /\ v.kind # "other" /\ w.kind # "other"
    /\ v.text = w.text
    /\ v.kind = "extended" /\ w.kind = "extended" => v.fields = w.fields

LEMMA DenialKept ==
    ASSUME NEW s \in Seq(Entries), NEW e \in Entries, KeepsText(s), Denies(s),
           e.triggered => \/ Len(s) = 0 \/ s[Len(s)] = Removed
                          \/ ~ SameWhat(e.what, s[Len(s)].what)
    PROVE  Denies(Append(s, e))
<1> DEFINE t == Append(s, e)
           l == Len(s)
<1>1. l \in Nat /\ Len(t) = l + 1 /\ t[l + 1] = e /\ \A m \in 1..l : t[m] = s[m]
  OBVIOUS
<1> SUFFICES ASSUME NEW k \in 1..(l + 1), NEW n \in 1..(l + 1), Repeats(t, k, n)
             PROVE  \E m \in (k + 1)..(n - 1) : /\ t[m].what.kind = "extended"
                                                /\ t[m].what.fields # t[n].what.fields
  BY <1>1 DEF Denies
<1> HIDE DEF t, l
<1>2. /\ k < n /\ k \in 1..l /\ t[n].triggered /\ t[k].triggered /\ t[n].what = t[k].what
      /\ t[n].what.kind # "other" /\ \A m \in (k + 1)..(n - 1) : Denied(t[m])
  BY <1>1 DEF Repeats
<1>3. \A m \in (k + 1)..(n - 1) : m \in 1..l /\ t[m] = s[m]
  BY <1>1, <1>2
<1>4. t[k] = s[k]
  BY <1>1, <1>2
<1>5. CASE n # l + 1
  <2>1. n \in 1..l /\ t[n] = s[n]
    BY <1>1, <1>5
  <2>2. Repeats(s, k, n)
    BY <1>2, <1>3, <1>4, <2>1 DEF Repeats
  <2>3. PICK m \in (k + 1)..(n - 1) : /\ s[m].what.kind = "extended"
                                      /\ s[m].what.fields # s[n].what.fields
    BY <1>2, <2>1, <2>2 DEF Denies, l
  <2> QED
    BY <1>3, <2>1, <2>3
<1>6. CASE n = l + 1
  <2>1. t[n] = e /\ e.triggered /\ e.what = s[k].what /\ e.what.kind # "other" /\ l > 0
    BY <1>1, <1>2, <1>4, <1>6
  <2>2. \A m \in (k + 1)..l : Denied(s[m])
    BY <1>1, <1>2, <1>3, <1>6
  <2>3. CASE k = l
    <3>1. SameWhat(e.what, s[l].what)
      BY <2>1, <2>3 DEF SameWhat
    <3>2. s[l] # Removed
      BY <1>2, <1>4, <2>3 DEF Removed
    <3> QED
      BY <2>1, <3>1, <3>2 DEF l
  <2>4. CASE k < l
    <3>1. s[k].what.text = s[l].what.text /\ s[l].what.kind # "other"
      BY <1>2, <2>2, <2>4 DEF KeepsText, l
    <3>2. Denied(s[l]) /\ l \in (k + 1)..(n - 1)
      BY <1>1, <1>2, <1>6, <2>2, <2>4
    <3>3. s[l] # Removed
      BY <3>2 DEF Denied, Removed
    <3>4. ~ SameWhat(e.what, s[l].what)
      BY <2>1, <3>3 DEF l
    <3>5. s[l].what.kind = "extended" /\ s[l].what.fields # e.what.fields
      BY <2>1, <3>1, <3>4 DEF SameWhat
    <3> QED
      BY <1>3, <2>1, <3>2, <3>5
  <2> QED
    BY <1>1, <1>2, <2>3, <2>4
<1> QED
  BY <1>5, <1>6

\* one history gets an entry, the others and their ids stay
LEMMA LogEntered ==
    ASSUME CacheType, LogInv, NEW i \in Ids, NEW e \in Entries,
           log' = [log EXCEPT ![i] = Append(@, e)],
           \A j \in Ids \ {i} : /\ j \in Cached' <=> j \in Cached
                                /\ j \in Cached => cacheMap'[j] = cacheMap[j],
           IF i \in Cached' THEN e.what = WithoutDelay(cacheMap'[i].content) ELSE e = Removed,
           Denied(e) => /\ Len(log[i]) > 0 /\ e.what.text = log[i][Len(log[i])].what.text
                        /\ e.what.kind # "other",
           e.triggered => \/ Len(log[i]) = 0 \/ log[i][Len(log[i])] = Removed
                          \/ ~ SameWhat(e.what, log[i][Len(log[i])].what)
    PROVE  LogInv'
<1> SUFFICES ASSUME NEW j \in Ids
             PROVE  KeepsText(log'[j]) /\ Denies(log'[j]) /\ LastIs(log[j], j)'
  BY DEF LogInv, KeepsText, Denies, Repeats, Denied
<1>1. CASE j # i
  <2>1. log'[j] = log[j]
    BY <1>1 DEF CacheType
  <2>2. LastIs(log[j], j)'
    BY <1>1, <2>1 DEF LogInv, LastIs
  <2> QED
    BY <2>1, <2>2 DEF LogInv
<1>2. CASE j = i
  <2> DEFINE s == log[i]
  <2>1. s \in Seq(Entries) /\ KeepsText(s) /\ Denies(s)
    BY DEF CacheType, LogInv
  <2>2. log'[i] = Append(s, e)
    BY DEF CacheType
  <2>3. KeepsText(Append(s, e)) /\ Denies(Append(s, e))
    <3>1. /\ Denied(e) => /\ Len(s) > 0 /\ e.what.text = s[Len(s)].what.text
                          /\ e.what.kind # "other"
          /\ e.triggered => \/ Len(s) = 0 \/ s[Len(s)] = Removed
                            \/ ~ SameWhat(e.what, s[Len(s)].what)
      OBVIOUS
    <3> HIDE DEF s
    <3> QED
      BY <2>1, <3>1, TextKept, DenialKept
  <2>4. Len(Append(s, e)) > 0 /\ Append(s, e)[Len(Append(s, e))] = e
    BY <2>1
  <2>5. LastIs(log[i], i)'
    BY <2>2, <2>4 DEF LastIs
  <2> QED
    BY <1>2, <2>2, <2>3, <2>5
<1> QED
  BY <1>1, <1>2

LEMMA LogStands ==
    ASSUME LogInv, UNCHANGED <<cacheMap, log>>
    PROVE  LogInv'
<1> SUFFICES ASSUME NEW j \in Ids
             PROVE  KeepsText(log[j])' /\ Denies(log[j])' /\ LastIs(log[j], j)'
  BY DEF LogInv
<1>1. KeepsText(log[j]) /\ Denies(log[j]) /\ LastIs(log[j], j)
  BY DEF LogInv
<1>2. KeepsText(log[j])'
  BY <1>1 DEF KeepsText, Denied
<1>3. Denies(log[j])'
  BY <1>1 DEF Denies, Repeats, Denied
<1>4. LastIs(log[j], j)'
  BY <1>1 DEF LastIs, Cached
<1> QED
  BY <1>2, <1>3, <1>4

LEMMA LogInit == Init => LogInv
<1> SUFFICES ASSUME Init, NEW i \in Ids
             PROVE  KeepsText(log[i]) /\ Denies(log[i]) /\ LastIs(log[i], i)
  BY DEF LogInv
<1>1. log[i] = <<>> /\ i \notin Cached
  BY DEF Init, Cached
<1>2. Len(log[i]) = 0
  BY <1>1
<1> QED
  BY <1>1, <1>2 DEF KeepsText, Denies, LastIs

LEMMA LogRemoved ==
    ASSUME CacheType, LogInv, NEW i \in Ids, i \in Cached, Remove(i)
    PROVE  LogInv'
<1>1. log' = [log EXCEPT ![i] = Append(@, Removed)]
  BY DEF Remove
<1>2. cacheMap' = [j \in Cached \ {i} |-> cacheMap[j]]
  BY DEF Remove
<1>3. Cached' = Cached \ {i}
  <2>1. DOMAIN cacheMap' = Cached \ {i}
    BY <1>2
  <2> QED
    BY <2>1 DEF Cached
<1>4. \A j \in Ids \ {i} : /\ j \in Cached' <=> j \in Cached
                           /\ j \in Cached => cacheMap'[j] = cacheMap[j]
  BY <1>2, <1>3
<1>5. Removed \in Entries /\ ~ Removed.triggered /\ ~ Denied(Removed)
  <2>1. Removed.what \in Whats /\ Removed.triggered = FALSE /\ Removed.what.kind = "removed"
    BY DEF Whats, Removed
  <2> QED
    BY <2>1 DEF Entries, Removed, Denied
<1>6. i \notin Cached'
  BY <1>3
<1> QED
  BY <1>1, <1>4, <1>5, <1>6, LogEntered

LEMMA LogStep == CacheType /\ LogInv /\ [Next]_vars => LogInv'
<1> SUFFICES ASSUME CacheType, LogInv, [Next]_vars PROVE LogInv'
  OBVIOUS
<1>0. /\ pc \in [Procs -> PC] /\ victims \in [Procs -> SUBSET Ids]
      /\ Cached \subseteq Ids /\ log \in [Ids -> Seq(Entries)]
  BY DEF CacheType, TypeOK
<1>1. ASSUME NEW p \in Procs, NEW i \in Ids, NEW c \in Contents, Append_(p, i, c)
      PROVE  LogInv'
  <2> DEFINE old == cacheMap[i].content
             valid == i \notin Cached \/ ~ IsDuplicate(c, old)
             e == Delivered(c, valid)
             s == log[i]
  <2>1. Cached' = Cached \cup {i}
    BY <1>1, CachedChanges
  <2>2. cacheMap' = [j \in Cached \cup {i} |->
                        IF j = i THEN [content |-> c, expiration |-> now + Lifetime]
                                 ELSE cacheMap[j]]
    BY <1>1 DEF Append_
  <2>3. \A j \in Ids \ {i} : /\ j \in Cached' <=> j \in Cached
                             /\ j \in Cached => cacheMap'[j] = cacheMap[j]
    BY <2>1, <2>2
  <2>4. /\ e.what = WithoutDelay(c) /\ e.triggered = valid
        /\ e.what.kind = c.kind /\ e.what.text = c.text /\ e.what.fields = c.fields
    BY DEF Delivered, WithoutDelay
  <2>5. e \in Entries
    <3>1. valid \in BOOLEAN /\ WithoutDelay(c) \in Whats
      BY DEF Whats
    <3> HIDE DEF valid
    <3> QED
      BY <3>1 DEF Entries, Delivered
  <2>6. log' = [log EXCEPT ![i] = Append(@, e)]
    BY <1>1 DEF Append_
  <2>7. i \in Cached' /\ e.what = WithoutDelay(cacheMap'[i].content)
    <3>1. cacheMap'[i].content = c
      BY <2>2
    <3> QED
      BY <2>1, <2>4, <3>1
  <2>8. LastIs(s, i)
    BY DEF LogInv
  <2>9. CASE i \in Cached
    <3>1. Len(s) > 0 /\ s[Len(s)].what = WithoutDelay(old)
      BY <2>8, <2>9 DEF LastIs
    <3>2. /\ s[Len(s)].what.kind = old.kind /\ s[Len(s)].what.text = old.text
          /\ s[Len(s)].what.fields = old.fields
      BY <3>1 DEF WithoutDelay
    <3>3. IsDuplicate(c, old) <=> SameWhat(e.what, s[Len(s)].what)
      BY <2>4, <3>2 DEF IsDuplicate, SameWhat
    <3>4. e.triggered <=> ~ SameWhat(e.what, s[Len(s)].what)
      BY <2>4, <2>9, <3>3
    <3>5. Denied(e) => /\ e.what.text = s[Len(s)].what.text /\ e.what.kind # "other"
      BY <3>4 DEF Denied, SameWhat
    <3> HIDE DEF e
    <3> QED
      BY <2>3, <2>5, <2>6, <2>7, <3>1, <3>4, <3>5, LogEntered
  <2>10. CASE i \notin Cached
    <3>1. Len(s) = 0 \/ s[Len(s)] = Removed
      BY <2>8, <2>10 DEF LastIs
    <3>2. ~ Denied(e)
      BY <2>4, <2>10 DEF Denied
    <3> HIDE DEF e
    <3> QED
      BY <2>3, <2>5, <2>6, <2>7, <3>1, <3>2, LogEntered
  <2> QED
    BY <2>9, <2>10
<1>2. ASSUME NEW p \in Procs, Evict(p) PROVE LogInv'
  <2>1. PICK i \in victims[p] : IF i \in Cached THEN Remove(i) ELSE UNCHANGED <<cacheMap, log>>
    BY <1>2 DEF Evict
  <2>2. CASE i \in Cached
    BY <1>0, <2>1, <2>2, LogRemoved
  <2>3. CASE i \notin Cached
    BY <2>1, <2>3, LogStands
  <2> QED
    BY <2>2, <2>3
<1>3. ASSUME NEW p \in Procs, DeleteExpired(p) PROVE LogInv'
  <2>1. CASE id[p] \in Cached
    BY <1>0, <1>3, <2>1, LogRemoved DEF DeleteExpired
  <2>2. CASE id[p] \notin Cached
    BY <1>3, <2>2, LogStands DEF DeleteExpired
  <2> QED
    BY <2>1, <2>2
<1>4. ASSUME NEW p \in Procs,
             \/ CountNew(p) \/ LoadLength(p) \/ Snapshot(p) \/ EndCleanUp(p)
             \/ (\E i \in Ids : FindExpired(p, i)) \/ Uncount(p)
      PROVE  LogInv'
  <2>1. UNCHANGED <<cacheMap, log>>
    BY <1>4 DEF CountNew, LoadLength, Snapshot, EndCleanUp, FindExpired, Uncount
  <2> QED
    BY <2>1, LogStands
<1>5. CASE DayPasses \/ UNCHANGED vars
  BY <1>5, LogStands DEF DayPasses, vars
<1> QED
  BY <1>1, <1>2, <1>3, <1>4, <1>5 DEF Next

LEMMA DenialMeans == LogInv => DuplicatesAreDenied
<1> SUFFICES ASSUME LogInv, NEW i \in Ids, NEW k \in 1..Len(log[i]), NEW n \in 1..Len(log[i]),
                    k < n, log[i][n].triggered, log[i][k].triggered,
                    log[i][n].what = log[i][k].what, log[i][n].what.kind # "other",
                    \A e \in {log[i][m] : m \in (k + 1)..(n - 1)} :
                        ~ e.triggered /\ e.what.kind # "removed"
             PROVE  \E e \in {log[i][m] : m \in (k + 1)..(n - 1)} :
                        e.what.kind = "extended" /\ e.what.fields # log[i][n].what.fields
  BY ZenonT(60) DEF DuplicatesAreDenied
<1>1. Repeats(log[i], k, n)
  BY DEF Repeats, Denied
<1>2. PICK m \in (k + 1)..(n - 1) : /\ log[i][m].what.kind = "extended"
                                    /\ log[i][m].what.fields # log[i][n].what.fields
  BY <1>1 DEF LogInv, Denies
<1> QED
  BY <1>2

(***************************************************************************)
(* A retry of a message is not triggered again, whatever was delivered,    *)
(* evicted or expired in between, with the one exception the property      *)
(* names.                                                                  *)
(***************************************************************************)
THEOREM RetriesAreDenied == Spec => []DuplicatesAreDenied
<1>1. Init => LogInv
  BY LogInit
<1>2. CacheType /\ LogInv /\ [Next]_vars => LogInv'
  BY LogStep
<1>3. LogInv => DuplicatesAreDenied
  BY DenialMeans
<1> QED
  BY <1>1, <1>2, <1>3, CacheIsTyped, PTL DEF Spec

-----------------------------------------------------------------------------
(***************************************************************************)
(* The messages of a bot are the cache and the receipts at once.           *)
(***************************************************************************)
SceneInv == scene \in Scenes

LEMMA SceneSets ==
    ASSUME SceneInv
    PROVE  /\ scene.senders \subseteq Procs \ Receipts /\ scene.receipts \subseteq Receipts
           /\ scene.ids \subseteq Ids /\ scene.contents \subseteq Contents
           /\ Receipts \subseteq Procs
BY MessagesAssumption DEF SceneInv

LEMMA CacheRuns ==
    ASSUME SceneInv, CacheType, [NextMessages]_allVars
    PROVE  [Next]_vars
<1>1. ASSUME NEW p \in scene.senders, NEW i \in scene.ids, NEW c \in scene.contents,
             Deliver(p, i, c)
      PROVE  Next
  <2>1. p \in Procs /\ i \in Ids /\ c \in Contents
    BY SceneSets
  <2> QED
    BY <1>1, <2>1 DEF Deliver, Next
<1>2. ASSUME NEW p \in scene.senders, NEW i \in scene.ids, LookUp(p, i) PROVE Next
  <2>1. p \in Procs /\ i \in Ids
    BY SceneSets
  <2> QED
    BY <1>2, <2>1 DEF LookUp, Next
<1>3. ASSUME NEW p \in scene.senders \cup scene.receipts, Tidy(p) PROVE Next
  <2>1. p \in Procs
    BY SceneSets
  <2> QED
    BY <1>3, <2>1 DEF Tidy, Next
<1>4. ASSUME NEW r \in scene.receipts, Receive(r) PROVE [Next]_vars
  BY <1>4 DEF Receive
<1>5. ASSUME NEW r \in scene.receipts, Mark(r) PROVE [Next]_vars
  <2>1. r \in Procs
    BY SceneSets
  <2>2. CASE msg[r] \in Cached \ Fresh
    <3>1. msg[r] \in Ids
      BY <2>2 DEF CacheType, TypeOK
    <3> QED
      BY <1>5, <2>1, <2>2, <3>1 DEF Mark, Next
  <2>3. CASE msg[r] \notin Cached \ Fresh
    BY <1>5, <2>3 DEF Mark
  <2> QED
    BY <2>2, <2>3
<1>6. CASE Expire
  BY <1>6 DEF Expire, Next
<1>7. CASE UNCHANGED allVars
  BY <1>7 DEF allVars
<1> QED
  BY <1>1, <1>2, <1>3, <1>4, <1>5, <1>6, <1>7 DEF NextMessages

LEMMA ReceiptsRun ==
    ASSUME SceneInv, [NextMessages]_allVars
    PROVE  [Receipt!Next]_(Receipt!vars)
<1>1. ASSUME NEW p \in scene.senders, NEW i \in scene.ids, NEW c \in scene.contents,
             Deliver(p, i, c)
      PROVE  Receipt!Next
  <2>1. i \in Ids
    BY SceneSets
  <2> QED
    BY <1>1, <2>1 DEF Deliver, Receipt!Next
<1>2. ASSUME NEW p, Tidy(p) \/ Expire \/ \E i : LookUp(p, i) PROVE Receipt!Next
  BY <1>2 DEF LookUp, Tidy, Expire, Receipt!Next
<1>3. ASSUME NEW r \in scene.receipts, Receive(r) PROVE Receipt!Next
  <2>1. r \in Receipts /\ SUBSET scene.ids \subseteq SUBSET Ids
    BY SceneSets
  <2>2. ASSUME NEW type \in Receipt!ReceiptTypes, NEW ids \in SUBSET scene.ids \ {{}},
               Receipt!ReceiptArrives(r, type, ids)
        PROVE  Receipt!Next
    <3>1. ids \in SUBSET Ids \ {{}}
      BY <2>1
    <3> QED
      BY <2>1, <2>2, <3>1 DEF Receipt!Next
  <2>3. ASSUME \/ \E i \in Ids : Receipt!Check(r, i)
               \/ Receipt!SetStatus(r) \/ Receipt!ReceiptDone(r)
        PROVE  Receipt!Next
    BY <2>1, <2>3 DEF Receipt!Next
  <2> QED
    BY <1>3, <2>2, <2>3 DEF Receive
<1>4. ASSUME NEW r \in scene.receipts, Mark(r) PROVE Receipt!Next
  <2>1. r \in Receipts
    BY SceneSets
  <2> QED
    BY <1>4, <2>1 DEF Mark, Receipt!Next
<1>5. CASE UNCHANGED allVars
  <2>1. Fresh' = Fresh
    BY <1>5 DEF allVars, vars, Fresh, Cached
  <2> QED
    BY <1>5, <2>1 DEF allVars, receiptVars, Receipt!vars
<1> QED
  BY <1>1, <1>2, <1>3, <1>4, <1>5 DEF NextMessages

THEOREM ScenesStay == SpecMessages => []SceneInv
<1>1. InitMessages => SceneInv
  BY DEF InitMessages, SceneInv
<1>2. SceneInv /\ [NextMessages]_allVars => SceneInv'
  BY DEF NextMessages, allVars, SceneInv
<1> QED
  BY <1>1, <1>2, PTL DEF SpecMessages

(***************************************************************************)
(* The composition takes the steps of the cache and of the receipts and no *)
(* others, so that what is proved of them holds of it.                     *)
(***************************************************************************)
THEOREM MessagesAreCached == SpecMessages => Spec
<1>1. InitMessages => Init /\ CacheType
  BY TypeInit DEF InitMessages
<1>2. SceneInv /\ CacheType /\ [NextMessages]_allVars => [Next]_vars
  BY CacheRuns
<1>3. CacheType /\ [Next]_vars => CacheType'
  BY TypeStep
<1> QED
  BY <1>1, <1>2, <1>3, ScenesStay, PTL DEF SpecMessages, Spec

THEOREM MessagesHaveStatus == SpecMessages => Receipt!Spec
<1>1. InitMessages => Receipt!Init
  BY DEF InitMessages
<1>2. SceneInv /\ [NextMessages]_allVars => [Receipt!Next]_(Receipt!vars)
  BY ReceiptsRun
<1> QED
  BY <1>1, <1>2, ScenesStay, PTL DEF SpecMessages, Receipt!Spec

-----------------------------------------------------------------------------
(***************************************************************************)
(* The invariant of the receipts.                                          *)
(***************************************************************************)
Stages == {"new", "next", "set", "mark", "done"}

StatusType ==
    /\ msgStatus \in [Ids -> 0..4] /\ status \in [Ids -> 0..4]
    /\ place \in [Receipts -> Stages]
    /\ current \in [Receipts -> 0..4]
    /\ todo \in [Receipts -> SUBSET Ids]
    /\ msg \in [Receipts -> Ids \cup {NoId}]
    /\ reported \in [Ids -> Nat]
    /\ overlapped \subseteq Ids
    /\ highest \in [Ids -> 0..4]

\* r is updating m
Updates(r, m) == place[r] \in {"set", "mark"} /\ msg[r] = m

\* what was read is reported, or somebody is about to
ReportInv(m) ==
    /\ status[m] <= highest[m]
    /\ \A r \in Receipts : Updates(r, m) => current[r] <= highest[m]
    /\ highest[m] = 4 => \/ reported[m] > 0
                         \/ \E r \in Receipts : Updates(r, m) /\ current[r] = 4

\* a message whose receipts never overlapped
AloneInv(m) ==
    /\ \A q, r \in Receipts : Updates(q, m) /\ Updates(r, m) => q = r
    /\ (\A r \in Receipts : ~ Updates(r, m)) => status[m] = highest[m]
    /\ reported[m] <= 1 /\ (reported[m] = 1 => status[m] = 4)
    /\ msgStatus[m] <= status[m]
    /\ \A r \in Receipts : Updates(r, m) =>
          /\ current[r] = highest[m]
          /\ place[r] = "set" => status[m] < current[r]
          /\ place[r] = "mark" => /\ status[m] = current[r]
                                  /\ current[r] = 4 => reported[m] = 0

StatusInv ==
    /\ StatusType
    /\ \A m \in Ids : ReportInv(m) /\ (m \notin overlapped => AloneInv(m))

LEMMA StatusInit == Receipt!Init => StatusInv
<1> SUFFICES ASSUME Receipt!Init PROVE StatusInv
  OBVIOUS
<1>1. StatusType
  BY DEF Receipt!Init, StatusType, Stages
<1>2. ASSUME NEW m \in Ids PROVE ReportInv(m) /\ AloneInv(m)
  BY DEF Receipt!Init, ReportInv, AloneInv, Updates
<1> QED
  BY <1>1, <1>2 DEF StatusInv

\* a receipt checks a message: it starts to update it, or leaves it
LEMMA CheckKeeps ==
    ASSUME StatusInv, NEW r \in Receipts, NEW i \in Ids, Receipt!Check(r, i)
    PROVE  StatusInv'
<1>0. StatusType /\ \A m \in Ids : ReportInv(m) /\ (m \notin overlapped => AloneInv(m))
  BY DEF StatusInv
<1> USE DEF Stages
<1>1. /\ place[r] = "next" /\ i \in todo[r]
      /\ todo' = [todo EXCEPT ![r] = @ \ {i}]
      /\ msg' = [msg EXCEPT ![r] = i]
      /\ highest' = [highest EXCEPT ![i] = IF @ < current[r] THEN current[r] ELSE @]
      /\ overlapped' = IF \E q \in Receipts \ {r} : Updates(q, i)
                         THEN overlapped \cup {i} ELSE overlapped
      /\ IF status[i] < current[r] THEN place' = [place EXCEPT ![r] = "set"]
                                   ELSE UNCHANGED place
      /\ UNCHANGED <<msgStatus, status, current, reported>>
  BY DEF Receipt!Check, Receipt!Raises, Receipt!Goto, Receipt!Updating, Updates
<1>2. StatusType'
  <2>1. highest' \in [Ids -> 0..4]
    BY <1>0, <1>1 DEF StatusType
  <2>2. todo' \in [Receipts -> SUBSET Ids] /\ msg' \in [Receipts -> Ids \cup {NoId}]
    BY <1>0, <1>1 DEF StatusType
  <2>3. place' \in [Receipts -> Stages]
    BY <1>0, <1>1 DEF StatusType
  <2>4. overlapped' \subseteq Ids
    BY <1>0, <1>1 DEF StatusType
  <2> QED
    BY <1>0, <1>1, <2>1, <2>2, <2>3, <2>4 DEF StatusType
<1>3. /\ \A q \in Receipts \ {r}, m \in Ids : Updates(q, m)' <=> Updates(q, m)
      /\ \A m \in Ids : ~ Updates(r, m)
      /\ \A m \in Ids : Updates(r, m)' <=> m = i /\ status[i] < current[r]
  BY <1>0, <1>1 DEF Updates, StatusType
<1>4. ASSUME NEW m \in Ids, m # i
      PROVE  ReportInv(m)' /\ (m \notin overlapped' => AloneInv(m)')
  <2>1. /\ highest'[m] = highest[m] /\ (m \in overlapped' <=> m \in overlapped)
        /\ \A q \in Receipts : Updates(q, m)' <=> Updates(q, m)
    BY <1>0, <1>1, <1>3, <1>4 DEF StatusType
  <2>2. ReportInv(m)'
    BY <1>0, <1>1, <2>1 DEF ReportInv
  <2>3. \A q \in Receipts : Updates(q, m) => place'[q] = place[q]
    BY <1>0, <1>1, <1>3 DEF StatusType
  <2>4. ASSUME m \notin overlapped' PROVE AloneInv(m)'
    BY <1>0, <1>1, <2>1, <2>3, <2>4 DEF AloneInv
  <2> QED
    BY <2>2, <2>4
<1>5. ReportInv(i)' /\ (i \notin overlapped' => AloneInv(i)')
  <2>0. /\ highest[i] \in 0..4 /\ status[i] \in 0..4 /\ current[r] \in 0..4
        /\ reported[i] \in Nat /\ msgStatus[i] \in 0..4 /\ \A q \in Receipts : current[q] \in 0..4
    BY <1>0 DEF StatusType
  <2>1. /\ highest'[i] = IF highest[i] < current[r] THEN current[r] ELSE highest[i]
        /\ status'[i] = status[i] /\ reported'[i] = reported[i] /\ msgStatus'[i] = msgStatus[i]
        /\ current' = current
    BY <1>0, <1>1 DEF StatusType
  <2>2. ReportInv(i)
    BY <1>0
  <2>3. ReportInv(i)'
    <3>1. status'[i] <= highest'[i]
      BY <2>0, <2>1, <2>2 DEF ReportInv
    <3>2. ASSUME NEW q \in Receipts, Updates(q, i)' PROVE current'[q] <= highest'[i]
      BY <1>3, <2>0, <2>1, <2>2, <3>2 DEF ReportInv
    <3>3. ASSUME highest'[i] = 4
          PROVE  reported'[i] > 0 \/ \E q \in Receipts : Updates(q, i)' /\ current'[q] = 4
      <4>1. CASE current[r] = 4 /\ status[i] < current[r]
        BY <1>3, <2>1, <4>1
      <4>2. CASE highest[i] = 4
        <5>1. reported[i] > 0 \/ \E q \in Receipts : Updates(q, i) /\ current[q] = 4
          BY <2>2, <4>2 DEF ReportInv
        <5> QED
          BY <1>3, <2>1, <5>1
      <4>3. CASE current[r] = 4 /\ status[i] >= current[r]
        BY <2>0, <2>2, <4>2, <4>3 DEF ReportInv
      <4> QED
        BY <2>0, <2>1, <3>3, <4>1, <4>2, <4>3
    <3> QED
      BY <3>1, <3>2, <3>3 DEF ReportInv
  <2>4. ASSUME i \notin overlapped' PROVE AloneInv(i)'
    <3>1. i \notin overlapped /\ \A q \in Receipts : ~ Updates(q, i)
      BY <1>1, <1>3, <2>4
    <3>2. /\ status[i] = highest[i] /\ reported[i] <= 1
          /\ (reported[i] = 1 => status[i] = 4) /\ msgStatus[i] <= status[i]
      BY <1>0, <3>1 DEF AloneInv
    <3>3. \A q \in Receipts : Updates(q, i)' <=> q = r /\ status[i] < current[r]
      BY <1>3, <3>1
    <3>4. status[i] < current[r] => place'[r] = "set"
      BY <1>0, <1>1 DEF StatusType
    <3>5. (\A q \in Receipts : ~ Updates(q, i)') => status'[i] = highest'[i]
      BY <2>0, <2>1, <3>2, <3>3
    <3>6. ASSUME NEW q \in Receipts, Updates(q, i)'
          PROVE  /\ current'[q] = highest'[i] /\ place'[q] = "set"
                 /\ status'[i] < current'[q]
      BY <2>0, <2>1, <3>2, <3>3, <3>4, <3>6
    <3> QED
      BY <2>1, <3>2, <3>3, <3>5, <3>6 DEF AloneInv
  <2> QED
    BY <2>3, <2>4
<1> QED
  BY <1>2, <1>4, <1>5 DEF StatusInv

LEMMA SetKeeps ==
    ASSUME StatusInv, NEW r \in Receipts, Receipt!SetStatus(r)
    PROVE  StatusInv'
<1>0. StatusType /\ \A m \in Ids : ReportInv(m) /\ (m \notin overlapped => AloneInv(m))
  BY DEF StatusInv
<1> USE DEF Stages
<1>1. /\ place[r] = "set"
      /\ status' = [status EXCEPT ![msg[r]] = current[r]]
      /\ place' = [place EXCEPT ![r] = "mark"]
      /\ UNCHANGED <<msgStatus, current, todo, msg, reported, overlapped, highest>>
  BY DEF Receipt!SetStatus, Receipt!Goto
<1>2. StatusType'
  BY <1>0, <1>1 DEF StatusType
<1>3. \A q \in Receipts, m \in Ids : Updates(q, m)' <=> Updates(q, m)
  BY <1>0, <1>1 DEF Updates, StatusType
<1>4. \A m \in Ids : Updates(r, m) <=> m = msg[r]
  BY <1>1 DEF Updates
<1>5. \A m \in Ids : status'[m] = IF m = msg[r] THEN current[r] ELSE status[m]
  BY <1>0, <1>1 DEF StatusType
<1>6. /\ place'[r] = "mark"
      /\ \A q \in Receipts \ {r} : place'[q] = place[q]
  BY <1>0, <1>1 DEF StatusType
<1>7. ASSUME NEW m \in Ids PROVE ReportInv(m)'
  <2>1. ReportInv(m)
    BY <1>0
  <2>2. status'[m] <= highest[m]
    BY <1>4, <1>5, <2>1 DEF ReportInv
  <2> QED
    BY <1>1, <1>3, <2>1, <2>2 DEF ReportInv
<1>8. ASSUME NEW m \in Ids, m \notin overlapped PROVE AloneInv(m)'
  <2>0. /\ AloneInv(m) /\ highest[m] \in 0..4 /\ status[m] \in 0..4 /\ msgStatus[m] \in 0..4
        /\ reported[m] \in Nat /\ \A q \in Receipts : current[q] \in 0..4
    BY <1>0, <1>8 DEF StatusType
  <2>1. CASE m # msg[r]
    <3>1. status'[m] = status[m] /\ \A q \in Receipts : Updates(q, m) => place'[q] = place[q]
      BY <1>4, <1>5, <1>6, <2>1
    <3> QED
      BY <1>1, <1>3, <2>0, <3>1 DEF AloneInv
  <2>2. CASE m = msg[r]
    <3>1. Updates(r, m) /\ \A q \in Receipts : Updates(q, m) => q = r
      BY <1>4, <2>0, <2>2 DEF AloneInv
    <3>2. current[r] = highest[m] /\ status[m] < current[r] /\ status'[m] = current[r]
      BY <1>1, <1>5, <2>0, <2>2, <3>1 DEF AloneInv
    <3>3. /\ reported[m] <= 1 /\ (reported[m] = 1 => status[m] = 4)
          /\ msgStatus[m] <= status[m]
      BY <2>0 DEF AloneInv
    <3>4. reported[m] = 0
      BY <2>0, <3>2, <3>3
    <3>5. \A q \in Receipts : Updates(q, m)' => q = r
      BY <1>3, <3>1
    <3>6. ~ \A q \in Receipts : ~ Updates(q, m)'
      BY <1>3, <3>1
    <3>7. msgStatus'[m] <= status'[m]
      BY <1>1, <2>0, <3>2, <3>3
    <3>8. \A q, s \in Receipts : Updates(q, m)' /\ Updates(s, m)' => q = s
      BY <3>5
    <3>9. ASSUME NEW q \in Receipts, Updates(q, m)'
          PROVE  /\ current'[q] = highest'[m]
                 /\ place'[q] = "set" => status'[m] < current'[q]
                 /\ place'[q] = "mark" => /\ status'[m] = current'[q]
                                          /\ current'[q] = 4 => reported'[m] = 0
      BY <1>1, <1>6, <3>2, <3>4, <3>5, <3>9
    <3> QED
      BY <1>1, <3>4, <3>6, <3>7, <3>8, <3>9 DEF AloneInv
  <2> QED
    BY <2>1, <2>2
<1> QED
  BY <1>1, <1>2, <1>7, <1>8 DEF StatusInv

LEMMA MarkKeeps ==
    ASSUME StatusInv, NEW r \in Receipts, Receipt!MarkMessage(r)
    PROVE  StatusInv'
<1>0. StatusType /\ \A m \in Ids : ReportInv(m) /\ (m \notin overlapped => AloneInv(m))
  BY DEF StatusInv
<1> USE DEF Stages
<1>1. /\ place[r] = "mark"
      /\ \/ msgStatus' = [msgStatus EXCEPT ![msg[r]] = current[r]]
         \/ msgStatus' = msgStatus
      /\ reported' = IF current[r] = 4 THEN [reported EXCEPT ![msg[r]] = @ + 1]
                                       ELSE reported
      /\ place' = [place EXCEPT ![r] = "next"]
      /\ UNCHANGED <<status, current, todo, msg, overlapped, highest>>
  BY DEF Receipt!MarkMessage, Receipt!Goto, Receipt!Read
<1>2. StatusType'
  <2>1. msgStatus' \in [Ids -> 0..4]
    BY <1>0, <1>1 DEF StatusType
  <2>2. reported' \in [Ids -> Nat]
    <3>1. \A m \in Ids : reported[m] \in Nat /\ reported[m] + 1 \in Nat
      BY <1>0 DEF StatusType
    <3>2. CASE current[r] = 4
      BY <1>0, <1>1, <3>1, <3>2 DEF StatusType
    <3>3. CASE current[r] # 4
      BY <1>0, <1>1, <3>3 DEF StatusType
    <3> QED
      BY <3>2, <3>3
  <2>3. place' \in [Receipts -> Stages]
    BY <1>0, <1>1 DEF StatusType
  <2> QED
    BY <1>0, <1>1, <2>1, <2>2, <2>3 DEF StatusType
<1>3. /\ \A q \in Receipts \ {r}, m \in Ids : Updates(q, m)' <=> Updates(q, m)
      /\ \A m \in Ids : ~ Updates(r, m)'
      /\ \A m \in Ids : Updates(r, m) <=> m = msg[r]
      /\ \A q \in Receipts \ {r} : place'[q] = place[q]
  BY <1>0, <1>1 DEF Updates, StatusType
<1>4. \A m \in Ids : /\ reported'[m] = IF m = msg[r] /\ current[r] = 4 THEN reported[m] + 1
                                                                       ELSE reported[m]
                     /\ \/ msgStatus'[m] = msgStatus[m]
                        \/ m = msg[r] /\ msgStatus'[m] = current[r]
  <2>1. CASE current[r] = 4
    BY <1>0, <1>1, <2>1 DEF StatusType
  <2>2. CASE current[r] # 4
    BY <1>0, <1>1, <2>2 DEF StatusType
  <2> QED
    BY <2>1, <2>2
<1>5. ASSUME NEW m \in Ids PROVE ReportInv(m)'
  <2>1. ReportInv(m) /\ reported[m] \in Nat
    BY <1>0 DEF StatusType
  <2>2. \A q \in Receipts : Updates(q, m)' => current'[q] <= highest'[m]
    BY <1>1, <1>3, <2>1 DEF ReportInv
  <2>3. ASSUME highest[m] = 4
        PROVE  reported'[m] > 0 \/ \E q \in Receipts : Updates(q, m)' /\ current[q] = 4
    <3>1. CASE reported[m] > 0
      BY <1>4, <2>1, <3>1
    <3>2. ASSUME NEW q \in Receipts, Updates(q, m), current[q] = 4
          PROVE  reported'[m] > 0 \/ \E s \in Receipts : Updates(s, m)' /\ current[s] = 4
      <4>1. CASE q = r
        BY <1>3, <1>4, <2>1, <3>2, <4>1
      <4>2. CASE q # r
        BY <1>3, <3>2, <4>2
      <4> QED
        BY <4>1, <4>2
    <3> QED
      BY <2>1, <2>3, <3>1, <3>2 DEF ReportInv
  <2> QED
    BY <1>1, <2>1, <2>2, <2>3 DEF ReportInv
<1>6. ASSUME NEW m \in Ids, m \notin overlapped PROVE AloneInv(m)'
  <2>0. /\ AloneInv(m) /\ highest[m] \in 0..4 /\ status[m] \in 0..4 /\ msgStatus[m] \in 0..4
        /\ reported[m] \in Nat /\ \A q \in Receipts : current[q] \in 0..4
    BY <1>0, <1>6 DEF StatusType
  <2>1. CASE m # msg[r]
    <3>1. /\ \A q \in Receipts : Updates(q, m)' <=> Updates(q, m)
          /\ \A q \in Receipts : Updates(q, m) => place'[q] = place[q]
          /\ reported'[m] = reported[m] /\ msgStatus'[m] = msgStatus[m]
      BY <1>3, <1>4, <2>1
    <3> QED
      BY <1>1, <2>0, <3>1 DEF AloneInv
  <2>2. CASE m = msg[r]
    <3>1. Updates(r, m) /\ \A q \in Receipts : ~ Updates(q, m)'
      BY <1>3, <2>0, <2>2 DEF AloneInv
    <3>2. /\ current[r] = highest[m] /\ status[m] = current[r]
          /\ current[r] = 4 => reported[m] = 0
      BY <1>1, <2>0, <3>1 DEF AloneInv
    <3>3. /\ reported[m] <= 1 /\ (reported[m] = 1 => status[m] = 4)
          /\ msgStatus[m] <= status[m]
      BY <2>0 DEF AloneInv
    <3>4. reported'[m] <= 1 /\ (reported'[m] = 1 => status'[m] = 4)
      BY <1>1, <1>4, <2>0, <3>2, <3>3
    <3>5. msgStatus'[m] <= status'[m]
      BY <1>1, <1>4, <2>0, <3>2, <3>3
    <3> QED
      BY <1>1, <3>1, <3>2, <3>4, <3>5 DEF AloneInv
  <2> QED
    BY <2>1, <2>2
<1> QED
  BY <1>1, <1>2, <1>5, <1>6 DEF StatusInv

\* the other steps update nothing
LEMMA OtherKeeps ==
    ASSUME StatusInv, StatusType', UNCHANGED <<status, reported, overlapped, highest>>,
           \A m \in Ids : msgStatus'[m] <= msgStatus[m],
           \A r \in Receipts, m \in Ids :
               /\ Updates(r, m)' <=> Updates(r, m)
               /\ Updates(r, m) => place'[r] = place[r] /\ current'[r] = current[r]
    PROVE  StatusInv'
<1>1. ASSUME NEW m \in Ids PROVE ReportInv(m)'
  <2>1. ReportInv(m)
    BY DEF StatusInv
  <2> QED
    BY <2>1 DEF ReportInv
<1>2. ASSUME NEW m \in Ids, m \notin overlapped PROVE AloneInv(m)'
  <2>1. AloneInv(m) /\ status[m] \in 0..4 /\ msgStatus[m] \in 0..4 /\ msgStatus'[m] \in 0..4
    BY <1>2 DEF StatusInv, StatusType
  <2>2. msgStatus'[m] <= status'[m]
    BY <2>1 DEF AloneInv
  <2> QED
    BY <2>1, <2>2 DEF AloneInv
<1> QED
  BY <1>1, <1>2 DEF StatusInv

LEMMA StatusStep == StatusInv /\ [Receipt!Next]_(Receipt!vars) => StatusInv'
<1> SUFFICES ASSUME StatusInv, [Receipt!Next]_(Receipt!vars) PROVE StatusInv'
  OBVIOUS
<1>0. StatusType
  BY DEF StatusInv
<1>1. ASSUME NEW i \in Ids, Receipt!MessageCached(i) PROVE StatusInv'
  <2>1. /\ msgStatus' = [msgStatus EXCEPT ![i] = 0]
        /\ UNCHANGED <<status, place, current, todo, msg, reported, overlapped, highest>>
    BY <1>1 DEF Receipt!MessageCached
  <2>2. StatusType'
    BY <1>0, <2>1 DEF StatusType
  <2>3. \A m \in Ids : msgStatus'[m] <= msgStatus[m]
    BY <1>0, <2>1 DEF StatusType
  <2>4. \A r \in Receipts, m \in Ids : Updates(r, m)' <=> Updates(r, m)
    BY <2>1 DEF Updates
  <2> QED
    BY <2>1, <2>2, <2>3, <2>4, OtherKeeps
<1>2. ASSUME Receipt!MessagesLeave \/ UNCHANGED Receipt!vars PROVE StatusInv'
  <2>1. UNCHANGED <<msgStatus, status, place, current, todo, msg, reported, overlapped, highest>>
    BY <1>2 DEF Receipt!MessagesLeave, Receipt!vars
  <2>2. StatusType'
    BY <1>0, <2>1 DEF StatusType
  <2>3. \A m \in Ids : msgStatus'[m] <= msgStatus[m]
    BY <1>0, <2>1 DEF StatusType
  <2>4. \A r \in Receipts, m \in Ids : Updates(r, m)' <=> Updates(r, m)
    BY <2>1 DEF Updates
  <2> QED
    BY <2>1, <2>2, <2>3, <2>4, OtherKeeps
<1>3. ASSUME NEW r \in Receipts, NEW type \in Receipt!ReceiptTypes,
             NEW ids \in SUBSET Ids \ {{}}, Receipt!ReceiptArrives(r, type, ids)
      PROVE  StatusInv'
  <2>1. Receipt!StatusOf(type) \in 0..4
    BY DEF Receipt!StatusOf, Receipt!ReceiptTypes, Receipt!Read
  <2>2. /\ place[r] = "new" /\ place' = [place EXCEPT ![r] = "next"]
        /\ current' = [current EXCEPT ![r] = Receipt!StatusOf(type)]
        /\ \E S \in SUBSET Ids : todo' = [todo EXCEPT ![r] = S]
        /\ UNCHANGED <<msgStatus, status, msg, reported, overlapped, highest>>
    BY <1>3 DEF Receipt!ReceiptArrives, Receipt!Goto
  <2>3. StatusType'
    BY <1>0, <2>1, <2>2 DEF StatusType, Stages
  <2>4. \A m \in Ids : msgStatus'[m] <= msgStatus[m]
    BY <1>0, <2>2 DEF StatusType
  <2>5. \A q \in Receipts, m \in Ids :
            /\ Updates(q, m)' <=> Updates(q, m)
            /\ Updates(q, m) => place'[q] = place[q] /\ current'[q] = current[q]
    BY <1>0, <2>2 DEF StatusType, Updates
  <2> QED
    BY <2>2, <2>3, <2>4, <2>5, OtherKeeps
<1>4. ASSUME NEW r \in Receipts, Receipt!ReceiptDone(r) PROVE StatusInv'
  <2>1. /\ place[r] = "next" /\ place' = [place EXCEPT ![r] = "done"]
        /\ UNCHANGED <<msgStatus, status, current, todo, msg, reported, overlapped, highest>>
    BY <1>4 DEF Receipt!ReceiptDone, Receipt!Goto
  <2>2. StatusType'
    BY <1>0, <2>1 DEF StatusType, Stages
  <2>3. \A m \in Ids : msgStatus'[m] <= msgStatus[m]
    BY <1>0, <2>1 DEF StatusType
  <2>4. \A q \in Receipts, m \in Ids :
            /\ Updates(q, m)' <=> Updates(q, m)
            /\ Updates(q, m) => place'[q] = place[q]
    BY <1>0, <2>1 DEF StatusType, Updates
  <2> QED
    BY <2>1, <2>2, <2>3, <2>4, OtherKeeps
<1> QED
  BY <1>1, <1>2, <1>3, <1>4, CheckKeeps, SetKeeps, MarkKeeps DEF Receipt!Next

LEMMA StatusIsKept == SpecMessages => []StatusInv
<1>1. Receipt!Init => StatusInv
  BY StatusInit
<1>2. StatusInv /\ [Receipt!Next]_(Receipt!vars) => StatusInv'
  BY StatusStep
<1> QED
  BY <1>1, <1>2, MessagesHaveStatus, PTL DEF Receipt!Spec

(***************************************************************************)
(* Whatever its receipts, its deliveries and the evictions do, a message   *)
(* somebody has read is reported as read ...                               *)
(***************************************************************************)
THEOREM ReadReportIsSent == SpecMessages => []ReadIsReported
<1>1. StatusInv => ReadIsReported
  BY DEF StatusInv, ReportInv, Updates, ReadIsReported, Receipt!ReadIsReported,
         Receipt!Settled, Receipt!Updating, Receipt!Read
<1> QED
  BY <1>1, StatusIsKept, PTL

(***************************************************************************)
(* ... and one whose receipts never overlapped has its status, once.       *)
(***************************************************************************)
THEOREM AloneIsExact == SpecMessages => []ExactUnlessOverlapped
<1>1. StatusInv => ExactUnlessOverlapped
  <2> SUFFICES ASSUME StatusInv, NEW m \in Ids \ overlapped, Receipt!Settled(m)
               PROVE  /\ status[m] = highest[m] /\ reported[m] <= 1
                      /\ msgStatus[m] \in 0..status[m]
    BY DEF ExactUnlessOverlapped, Receipt!ExactUnlessOverlapped
  <2>1. \A r \in Receipts : ~ Updates(r, m)
    BY DEF Receipt!Settled, Receipt!Updating, Updates
  <2>2. AloneInv(m) /\ msgStatus[m] \in 0..4 /\ status[m] \in 0..4
    BY DEF StatusInv, StatusType
  <2> QED
    BY <2>1, <2>2 DEF AloneInv
<1> QED
  BY <1>1, StatusIsKept, PTL

(***************************************************************************)
(* The cache of a bot, with its receipts at work on it.                    *)
(***************************************************************************)
THEOREM CacheIsSafe == SpecMessages => [](CounterAgrees /\ LengthIsBounded /\ DuplicatesAreDenied)
BY MessagesAreCached, CounterIsRight, LengthHolds, RetriesAreDenied, PTL
=============================================================================
