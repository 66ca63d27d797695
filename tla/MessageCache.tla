---------------------------- MODULE MessageCache ----------------------------
(***************************************************************************)
(* The message cache of a bot: a sync.Map and an atomic counter that       *)
(* several goroutines use without a common lock (src/src/models/           *)
(* qp_cache.go, qp_whatsapp_messages.go; src/src/library/cache.go has the  *)
(* same code), driven by appendMsgToCache of dispatching_handler.go.       *)
(* Time is counted in days.                                                *)
(***************************************************************************)
EXTENDS Integers, Sequences, FiniteSets

CONSTANTS
    Ids,            \* message ids, upper case
    NoId,           \* none of them
    Contents,       \* what messages may hold, see IsDuplicate
    Procs,          \* the goroutines
    CacheLength,    \* CACHELENGTH
    CacheDays,      \* CACHEDAYS
    DefaultDays,    \* DEFAULTEXPIRATION
    Modulus,        \* 2^64: the counter is a uint64
    MaxAppends,     \* bound: calls of Append
    MaxTime         \* bound: days

ASSUME CacheAssumption ==
    /\ IsFiniteSet(Procs)
    /\ CacheLength \in Nat /\ CacheDays \in Nat
    /\ DefaultDays \in Nat \ {0}
    /\ Modulus \in Nat /\ Modulus > 4 * (CacheLength + Cardinality(Procs) + 1)
    /\ MaxAppends \in Nat /\ MaxTime \in Nat

VARIABLES
    cacheMap,       \* id -> what is cached under it
    counter,
    now,
    pc,             \* of each goroutine
    id,             \* the id it works on
    amount,         \* CleanUp: how many items are too many
    victims,        \* CleanUp: the ids it has still to delete
    appends,        \* calls of Append so far
    log             \* history, per id: what was delivered, whether it was
                    \* triggered, and the removals

vars == <<cacheMap, counter, now, pc, id, amount, victims, appends, log>>

Item == [content : Contents, expiration : Nat]

PC == {"idle", "count", "length", "snapshot", "evict", "uncountVictim",
       "expired", "uncountExpired"}

\* the ids that are in the map
Cached == DOMAIN cacheMap

TypeOK ==
    /\ Cached \subseteq Ids /\ cacheMap \in [Cached -> Item]
    /\ counter \in 0..(Modulus - 1)
    /\ now \in 0..MaxTime
    /\ pc \in [Procs -> PC]
    /\ id \in [Procs -> Ids \cup {NoId}]
    /\ amount \in [Procs -> 0..(Modulus - 1)]
    /\ victims \in [Procs -> SUBSET Ids]
    /\ appends \in 0..MaxAppends

Init ==
    /\ cacheMap = <<>> /\ counter = 0
    /\ now = 0
    /\ pc = [p \in Procs |-> "idle"]
    /\ id = [p \in Procs |-> NoId]
    /\ amount = [p \in Procs |-> 0]
    /\ victims = [p \in Procs |-> {}]
    /\ appends = 0
    /\ log = [i \in Ids |-> <<>>]

Goto(p, l) == pc' = [pc EXCEPT ![p] = l]

-----------------------------------------------------------------------------
(* A content is a record: kind is "extended" (an ExtendedTextMessage),     *)
(* "plain" (another message of the protocol) or "other" (something the bot *)
(* made itself), text what is compared first, fields the rest of the       *)
(* message and delay the fields that change when WhatsApp retries an ad.   *)

\* as if the delay fields were compared as well
IsDuplicate_WithDelays(new, old) ==
    /\ new.kind # "other" /\ old.kind # "other"
    /\ new.text = old.text
    /\ new.kind = "extended" /\ old.kind = "extended" =>
          new.fields = old.fields /\ new.delay = old.delay

\* ValidateItemBecauseUNOAPIConflict denies the trigger
IsDuplicate(new, old) ==
    /\ new.kind # "other" /\ old.kind # "other"
    /\ new.text = old.text
    /\ new.kind = "extended" /\ old.kind = "extended" =>
          new.fields = old.fields

\* GetCacheExpiration
Lifetime == IF CacheDays > 0 THEN CacheDays ELSE DefaultDays

WithoutDelay(c) == [kind |-> c.kind, text |-> c.text, fields |-> c.fields]
Delivered(c, valid) == [what |-> WithoutDelay(c), triggered |-> valid]

\* Append and SetCacheItem: the Swap decides whether the message is new, an
\* update, or a duplicate that goes no further
Append_(p, i, c) ==
    LET isNew == i \notin Cached
        valid == isNew \/ ~IsDuplicate(c, cacheMap[i].content)
    IN
    /\ pc[p] = "idle" /\ appends < MaxAppends
    /\ cacheMap' = [j \in Cached \cup {i} |->
                       IF j = i
                         THEN [content |-> c, expiration |-> now + Lifetime]
                         ELSE cacheMap[j]]
    /\ Goto(p, IF isNew THEN "count" ELSE IF valid THEN "length" ELSE "idle")
    /\ id' = [id EXCEPT ![p] = i]
    /\ appends' = appends + 1
    /\ log' = [log EXCEPT ![i] = Append(@, Delivered(c, valid))]
    /\ UNCHANGED <<counter, now, amount, victims>>

\* source.counter.Add(1), after the Swap
CountNew(p) ==
    /\ pc[p] = "count"
    /\ counter' = (counter + 1) % Modulus
    /\ Goto(p, "length")
    /\ UNCHANGED <<cacheMap, now, id, amount, victims, appends, log>>

\* int(amount): the upper half of the unsigned values is negative
Positive(n) == n \in 1..((Modulus - 1) \div 2)

\* as if a cache of one message too many were left alone
LoadLength_OffByOne(p) ==
    /\ pc[p] = "length"
    /\ LET a == (counter - CacheLength + Modulus) % Modulus IN
          /\ amount' = [amount EXCEPT ![p] = a]
          /\ Goto(p, IF CacheLength > 0 /\ a > 1 /\ Positive(a)
                       THEN "snapshot" ELSE "idle")
    /\ UNCHANGED <<cacheMap, counter, now, id, victims, appends, log>>

\* CleanUp: the length is read from the counter alone
LoadLength(p) ==
    /\ pc[p] = "length"
    /\ LET a == (counter - CacheLength + Modulus) % Modulus IN
          /\ amount' = [amount EXCEPT ![p] = a]
          /\ Goto(p, IF CacheLength > 0 /\ Positive(a)
                       THEN "snapshot" ELSE "idle")
    /\ UNCHANGED <<cacheMap, counter, now, id, victims, appends, log>>

\* no id outside of the set expires before one in it
Oldest(S) ==
    \A i \in S, j \in Cached \ S :
        cacheMap[i].expiration <= cacheMap[j].expiration

\* GetOrdered, and the first of the items, as many as are too many; items that
\* expire together come in any order
Snapshot(p) ==
    /\ pc[p] = "snapshot"
    /\ \E S \in SUBSET Cached :
          /\ Oldest(S)
          /\ \/ Cardinality(S) = amount[p]
             \/ S = Cached /\ Cardinality(S) < amount[p]
          /\ victims' = [victims EXCEPT ![p] = S]
    /\ Goto(p, "evict")
    /\ UNCHANGED <<cacheMap, counter, now, id, amount, appends, log>>

Removed == [what |-> [kind |-> "removed"], triggered |-> FALSE]

Remove(i) ==
    /\ cacheMap' = [j \in Cached \ {i} |-> cacheMap[j]]
    /\ log' = [log EXCEPT ![i] = Append(@, Removed)]

\* DeleteByKey: whatever is under the key now
Evict(p) ==
    /\ pc[p] = "evict"
    /\ \E i \in victims[p] :
          /\ victims' = [victims EXCEPT ![p] = @ \ {i}]
          /\ id' = [id EXCEPT ![p] = i]
          /\ IF i \in Cached
               THEN Remove(i) /\ Goto(p, "uncountVictim")
               ELSE UNCHANGED <<cacheMap, log, pc>>
    /\ UNCHANGED <<counter, now, amount, appends>>

\* the message goes on to Trigger
EndCleanUp(p) ==
    /\ pc[p] = "evict" /\ victims[p] = {}
    /\ Goto(p, "idle")
    /\ UNCHANGED <<cacheMap, counter, now, id, amount, victims, appends, log>>

\* GetById finds an item that has expired ...
FindExpired(p, i) ==
    /\ pc[p] = "idle"
    /\ i \in Cached /\ now >= cacheMap[i].expiration
    /\ id' = [id EXCEPT ![p] = i]
    /\ Goto(p, "expired")
    /\ UNCHANGED <<cacheMap, counter, now, amount, victims, appends, log>>

\* as if the counter were decremented although the item was gone
DeleteExpired_Unchecked(p) ==
    /\ pc[p] = "expired"
    /\ IF id[p] \in Cached THEN Remove(id[p]) ELSE UNCHANGED <<cacheMap, log>>
    /\ Goto(p, "uncountExpired")
    /\ UNCHANGED <<counter, now, id, amount, victims, appends>>

\* ... and deletes what is under its key
DeleteExpired(p) ==
    /\ pc[p] = "expired"
    /\ IF id[p] \in Cached
         THEN Remove(id[p]) /\ Goto(p, "uncountExpired")
         ELSE UNCHANGED <<cacheMap, log>> /\ Goto(p, "idle")
    /\ UNCHANGED <<counter, now, id, amount, victims, appends>>

\* source.counter.Add(^uint64(0)), after the LoadAndDelete
Uncount(p) ==
    /\ pc[p] \in {"uncountVictim", "uncountExpired"}
    /\ counter' = (counter + Modulus - 1) % Modulus
    /\ Goto(p, IF pc[p] = "uncountVictim" THEN "evict" ELSE "idle")
    /\ UNCHANGED <<cacheMap, now, id, amount, victims, appends, log>>

DayPasses ==
    /\ now < MaxTime
    /\ now' = now + 1
    /\ UNCHANGED <<cacheMap, counter, pc, id, amount, victims, appends, log>>

Next ==
    \/ \E p \in Procs :
          \/ \E i \in Ids, c \in Contents : Append_(p, i, c)
          \/ CountNew(p) \/ LoadLength(p) \/ Snapshot(p) \/ Evict(p)
          \/ EndCleanUp(p)
          \/ \E i \in Ids : FindExpired(p, i)
          \/ DeleteExpired(p) \/ Uncount(p)
    \/ DayPasses

Spec == Init /\ [][Next]_vars

-----------------------------------------------------------------------------
At(L) == {p \in Procs : pc[p] \in L}

(***************************************************************************)
(* The counter and the map, which are changed in two steps each, never     *)
(* drift apart: they differ by the goroutines between the two steps, and   *)
(* agree when there is none.                                               *)
(***************************************************************************)
CounterAgrees ==
    counter = (Cardinality(Cached) - Cardinality(At({"count"}))
                + Cardinality(At({"uncountVictim", "uncountExpired"}))
                + Modulus) % Modulus

(***************************************************************************)
(* CACHELENGTH bounds the cache: it is exceeded by no more than the        *)
(* messages whose goroutines are still between the Swap and the end of     *)
(* their CleanUp.                                                          *)
(***************************************************************************)
LengthIsBounded ==
    CacheLength > 0 =>
        Cardinality(Cached) <= CacheLength + Cardinality(
            At({"count", "length", "snapshot", "evict", "uncountVictim"}))

(***************************************************************************)
(* A message that is delivered again is not triggered again: between two   *)
(* triggers of the same content under one id, another content was          *)
(* triggered or the message had left the cache.  It is about retries that  *)
(* race with each other, with evictions and with expiry.  There is one     *)
(* exception: as a content is compared with the last one delivered, not    *)
(* triggered, an ad with other fields, taken for a duplicate of a plain    *)
(* message with its text, lets the content through again.                  *)
(***************************************************************************)
DuplicatesAreDenied ==
    \A i \in Ids : \A k, n \in 1..Len(log[i]) :
        LET new == log[i][n]
            between == {log[i][m] : m \in (k + 1)..(n - 1)}
            Repeats == /\ k < n /\ new.triggered /\ log[i][k].triggered
                       /\ new.what = log[i][k].what /\ new.what.kind # "other"
                       /\ \A e \in between : ~e.triggered /\ e.what.kind # "removed"
        IN Repeats => \E e \in between : /\ e.what.kind = "extended"
                                        /\ e.what.fields # new.what.fields

(***************************************************************************)
(* qp_cache.go:80: CleanUp removes "old ones, by timestamp, until a        *)
(* maximum length".                                                        *)
(***************************************************************************)
CleanUpStopsAtLength ==
    [][\A p \in Procs :
          pc[p] = "evict" /\ pc'[p] = "uncountVictim" =>
              Cardinality(Cached) > CacheLength]_vars

(***************************************************************************)
(* environment/README.md:88: CACHEDAYS "default: 0 = unlimited": without a *)
(* limit no message expires.                                               *)
(***************************************************************************)
NoDaysIsUnlimited ==
    CacheDays = 0 => \A i \in Cached : now < cacheMap[i].expiration

=============================================================================
