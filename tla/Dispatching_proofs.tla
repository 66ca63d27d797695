-------------------------- MODULE Dispatching_proofs --------------------------
(***************************************************************************)
(* Proofs about Dispatching, up to the step at which a request begins to   *)
(* change the list while another one does (then a change may be lost, as   *)
(* the README shows, and clashed is set).                                  *)
(*                                                                         *)
(* A message ranges over a header that it copied; what could go wrong is   *)
(* that a cell below its length changes.  An append writes beyond the      *)
(* length of the list, and while nothing is removed the list is at least   *)
(* as long as every header over the same array (Fits); a replacement in    *)
(* place keeps the url of its cell; and a removal marks the messages that  *)
(* are in the loop.  So the urls before the index are those served, once   *)
(* each because no url is twice in the header (Distinct), and Distinct     *)
(* holds because the list has each url of the database once.               *)
(***************************************************************************)
EXTENDS Dispatching, FiniteSetTheorems, SequenceTheorems, TLAPS

\* one request at most is changing the list
OneAtATime == \A q, r \in Requests : reqPc[q] # "idle" /\ reqPc[r] # "idle" => q = r

-----------------------------------------------------------------------------
(* The array that a removal leaves *)

\* There are n numbers from 1 to n.
LEMMA UpTo ==
    ASSUME NEW n \in Nat
    PROVE  IsFiniteSet(1..n) /\ Cardinality(1..n) = n
<1>1. 1 \in Int /\ n \in Int
  OBVIOUS
<1>2. IsFiniteSet(1..n) /\ Cardinality(1..n) = IF 1 > n THEN 0 ELSE n - 1 + 1
  BY <1>1, FS_Interval, Zenon
<1> QED
  BY <1>2

\* The positions that stay keep their order: counting them up to each gives
\* the numbers from 1 on, each of them once.
LEMMA Ranking ==
    ASSUME NEW n \in Nat, NEW stay \in SUBSET (1..n),
           NEW rank, rank = [i \in stay |-> Cardinality(stay \cap (1..i))]
    PROVE  /\ IsFiniteSet(stay) /\ Cardinality(stay) \in 0..n
           /\ rank \in Bijection(stay, 1..Cardinality(stay))
           /\ \A i \in stay : rank[i] <= i
           /\ Cardinality(stay) = n => stay = 1..n /\ \A i \in stay : rank[i] = i
<1>1. IsFiniteSet(1..n) /\ Cardinality(1..n) = n
  BY UpTo
<1>2. IsFiniteSet(stay) /\ Cardinality(stay) \in 0..n
        /\ (Cardinality(stay) = n => stay = 1..n)
  <2>1. IsFiniteSet(stay) /\ Cardinality(stay) <= n
          /\ (n = Cardinality(stay) => 1..n = stay)
    BY <1>1, FS_Subset
  <2>2. Cardinality(stay) \in Nat
    BY <2>1, FS_CardinalityType
  <2> QED
    BY <2>1, <2>2
<1>3. ASSUME NEW i \in stay
      PROVE  /\ rank[i] \in 1..Cardinality(stay) /\ rank[i] <= i
             /\ IsFiniteSet(stay \cap (1..i)) /\ i \in stay \cap (1..i)
  <2>1. i \in Nat /\ IsFiniteSet(1..i) /\ Cardinality(1..i) = i /\ i \in stay \cap (1..i)
    BY UpTo
  <2>2. /\ IsFiniteSet(stay \cap (1..i))
        /\ Cardinality(stay \cap (1..i)) <= Cardinality(stay)
    BY <1>2, FS_Intersection
  <2>3. stay \cap (1..i) \in SUBSET (1..i)
    OBVIOUS
  <2>4. Cardinality(stay \cap (1..i)) <= i
    BY <2>1, <2>3, FS_Subset
  <2>5. Cardinality(stay \cap (1..i)) \in Nat /\ Cardinality(stay \cap (1..i)) # 0
    BY <2>1, <2>2, FS_CardinalityType, FS_EmptySet
  <2> QED
    BY <1>2, <2>1, <2>2, <2>4, <2>5
<1>4. ASSUME NEW i \in stay, NEW k \in stay, i < k
      PROVE  rank[i] # rank[k]
  <2>1. stay \cap (1..i) \in SUBSET (stay \cap (1..k))
    BY <1>4
  <2>2. k \notin stay \cap (1..i) /\ k \in stay \cap (1..k)
    BY <1>4
  <2>3. Cardinality(stay \cap (1..k)) = Cardinality(stay \cap (1..i))
          => stay \cap (1..k) = stay \cap (1..i)
    BY <1>3, <2>1, FS_Subset
  <2> QED
    BY <2>2, <2>3
<1>5. rank \in Injection(stay, 1..Cardinality(stay))
  <2>1. \A i, k \in stay : rank[i] = rank[k] => i = k
    <3> SUFFICES ASSUME NEW i \in stay, NEW k \in stay, rank[i] = rank[k], i # k
                 PROVE  FALSE
      OBVIOUS
    <3>1. i \in Nat /\ k \in Nat
      OBVIOUS
    <3>2. i < k \/ k < i
      BY <3>1
    <3> QED
      BY <1>4, <3>2
  <2>2. rank \in [stay -> 1..Cardinality(stay)]
    BY <1>3
  <2> QED
    BY <2>1, <2>2 DEF Injection, IsInjective
<1>6. rank \in Bijection(stay, 1..Cardinality(stay))
  <2>1. /\ IsFiniteSet(1..Cardinality(stay))
        /\ Cardinality(1..Cardinality(stay)) = Cardinality(stay)
    BY <1>2, UpTo
  <2>2. rank \in Surjection(stay, 1..Cardinality(stay))
    BY <1>5, <2>1, FS_Injection
  <2> QED
    BY <1>5, <2>2 DEF Bijection
<1>7. ASSUME Cardinality(stay) = n, NEW i \in stay
      PROVE  rank[i] = i
  <2>1. stay = 1..n /\ i \in Nat
    BY <1>2, <1>7
  <2>2. stay \cap (1..i) = 1..i
    BY <2>1
  <2> QED
    BY <2>1, <2>2, UpTo
<1> QED
  BY <1>2, <1>3, <1>6, <1>7

\* The cells that stay come first, one for one, and the rest of the array is
\* as it was; where all stay nothing moves.
LEMMA Compacting ==
    ASSUME NEW cells \in Seq(Nat), NEW n \in 0..Len(cells), NEW stay \in SUBSET (1..n)
    PROVE  /\ Cardinality(stay) \in 0..n
           /\ Compacted(cells, stay) \in Seq(Nat)
           /\ Len(Compacted(cells, stay)) = Len(cells)
           /\ \E from \in Bijection(1..Cardinality(stay), stay) :
                \A j \in 1..Cardinality(stay) :
                    Compacted(cells, stay)[j] = cells[from[j]]
           /\ \A j \in 1..Len(cells) :
                j > Cardinality(stay) => Compacted(cells, stay)[j] = cells[j]
           /\ Cardinality(stay) = n => Compacted(cells, stay) = cells
<1> DEFINE rank == [i \in stay |-> Cardinality(stay \cap (1..i))]
           c == Cardinality(stay)
           from == [j \in 1..c |-> CHOOSE i \in stay : Cardinality(stay \cap (1..i)) = j]
           new == Compacted(cells, stay)
<1>1. /\ c \in 0..n /\ rank \in Bijection(stay, 1..c)
      /\ c = n => stay = 1..n /\ \A i \in stay : rank[i] = i
  <2>1. n \in Nat
    OBVIOUS
  <2> QED
    BY <2>1, Ranking
<1>0. Len(cells) \in Nat /\ n \in Nat /\ c \in Nat /\ c <= n /\ n <= Len(cells)
  BY <1>1
<1>2. new = [j \in 1..Len(cells) |-> IF j <= c THEN cells[from[j]] ELSE cells[j]]
  <2>1. DOMAIN cells = 1..Len(cells)
    OBVIOUS
  <2>2. ASSUME NEW j \in 1..Len(cells), j <= c
        PROVE  cells[CHOOSE i \in stay : Cardinality(stay \cap (1..i)) = j] = cells[from[j]]
    <3>1. j \in 1..c
      BY <1>0, <2>2
    <3> QED
      BY <3>1
  <2> HIDE DEF from, rank
  <2> QED
    BY <2>1, <2>2 DEF Compacted
<1>3. \A j \in 1..c : from[j] \in stay /\ rank[from[j]] = j
  <2>1. \A j \in 1..c : \E i \in stay : rank[i] = j
    BY <1>1, Zenon DEF Bijection, Surjection
  <2>2. \A j \in 1..c : \E i \in stay : Cardinality(stay \cap (1..i)) = j
    BY <2>1
  <2> QED
    BY <2>2
<1>4. from \in Bijection(1..c, stay)
  <2>1. \A i \in stay : rank[i] \in 1..c
    BY <1>1, Zenon DEF Bijection, Injection
  <2>2. \A i, k \in stay : rank[i] = rank[k] => i = k
    BY <1>1 DEF Bijection, Injection, IsInjective
  <2> HIDE DEF rank
  <2>3. from \in [1..c -> stay]
    BY <1>3
  <2> HIDE DEF from
  <2>4. \A j, k \in 1..c : from[j] = from[k] => j = k
    BY <1>3
  <2>5. \A i \in stay : \E j \in 1..c : from[j] = i
    BY <1>3, <2>1, <2>2
  <2>6. from \in Injection(1..c, stay)
    BY <2>3, <2>4 DEF Injection, IsInjective
  <2>7. from \in Surjection(1..c, stay)
    BY <2>3, <2>5, Zenon DEF Surjection
  <2> QED
    BY <2>6, <2>7 DEF Bijection
<1> HIDE DEF rank, from, new, c
<1>5. /\ new \in Seq(Nat) /\ Len(new) = Len(cells)
      /\ \A j \in 1..Len(cells) : new[j] = IF j <= c THEN cells[from[j]] ELSE cells[j]
  <2>1. \A j \in 1..Len(cells) : (IF j <= c THEN cells[from[j]] ELSE cells[j]) \in Nat
    <3> TAKE j \in 1..Len(cells)
    <3>1. cells[j] \in Nat
      OBVIOUS
    <3>2. j <= c => j \in 1..c
      BY <1>0
    <3>3. j <= c => from[j] \in stay
      BY <1>3, <3>2
    <3>4. \A i \in stay : cells[i] \in Nat
      BY <1>0
    <3> QED
      BY <3>1, <3>3, <3>4
  <2>2. \A j \in 1..Len(cells) : new[j] = IF j <= c THEN cells[from[j]] ELSE cells[j]
    BY <1>2
  <2>3. new \in [1..Len(cells) -> Nat]
    BY <1>2, <2>1
  <2>4. Len(cells) \in Nat
    BY <1>0
  <2> DEFINE l == Len(cells)
  <2> HIDE DEF l
  <2>5. l \in Nat /\ new \in [1..l -> Nat]
    BY <2>3, <2>4 DEF l
  <2>6. new \in Seq(Nat)
    BY <2>5
  <2>7. Len(new) = l
    BY <2>5
  <2> QED
    BY <2>2, <2>6, <2>7 DEF l
<1>6. \A j \in 1..c : new[j] = cells[from[j]]
  <2>1. \A j \in 1..c : j \in 1..Len(cells) /\ j <= c
    BY <1>0
  <2>2. \A j \in 1..Len(cells) : new[j] = IF j <= c THEN cells[from[j]] ELSE cells[j]
    BY <1>5
  <2> QED
    BY <2>1, <2>2, Zenon
<1>7. \A j \in 1..Len(cells) : j > c => new[j] = cells[j]
  BY <1>1, <1>5
<1>8. ASSUME c = n PROVE new = cells
  <2>1. \A j \in 1..c : from[j] = j
    BY <1>1, <1>3, <1>8
  <2>2. \A j \in 1..Len(cells) : j <= c \/ j > c
    BY <1>0
  <2>3. \A j \in 1..Len(cells) : j <= c => j \in 1..c
    BY <1>0
  <2>4. \A j \in 1..Len(cells) : new[j] = cells[j]
    BY <1>6, <1>7, <2>1, <2>2, <2>3, Zenon
  <2> QED
    BY <1>5, <2>4, SeqEqual
<1> QED
  BY <1>1, <1>4, <1>5, <1>6, <1>7, <1>8 DEF new, c

-----------------------------------------------------------------------------
(* The invariant *)

\* a header is within its array, and its cells are dispatchings
Header(s) ==
    /\ s.array \in DOMAIN arrays
    /\ s.len \in 0..Len(arrays[s.array])
    /\ \A i \in 1..s.len : arrays[s.array][i] \in 1..made

UrlAt(s, i) == urls[arrays[s.array][i]]

Distinct(s) == \A i, j \in 1..s.len : UrlAt(s, i) = UrlAt(s, j) => i = j

\* a header lists each url of a set once, and nothing else
Exactly(s, set) ==
    /\ Distinct(s)
    /\ \A i \in 1..s.len : UrlAt(s, i) \in set
    /\ \A u \in set : \E i \in 1..s.len : UrlAt(s, i) = u

\* what is appended to t is written beyond s
Fits(s, t) == s.array = t.array => s.len <= t.len

Headers == [array : Nat, len : Nat]

ListTypes ==
    /\ arrays \in Seq(Seq(Nat)) /\ urls \in Seq(Urls) /\ database \in SUBSET Urls
    /\ slice \in Headers /\ Header(slice)

RequestTypes ==
    /\ reqPc \in [Requests -> {"idle", "add", "remove", "store"}]
    /\ reqUrl \in [Requests -> Urls \cup {""}] /\ reqSlice \in [Requests -> Headers]
    /\ ops \in 0..MaxOps
    /\ \A r \in Requests :
        /\ reqPc[r] # "idle" => ops # 0
        /\ reqPc[r] \in {"add", "remove"} => reqUrl[r] \in Urls
        /\ reqPc[r] = "store" => Header(reqSlice[r])

MessageTypes ==
    /\ pc \in [Messages -> {"idle", "queued", "next", "sending", "done"}]
    /\ range \in [Messages -> Headers] /\ \A m \in Messages : Header(range[m])
    /\ index \in [Messages -> Nat]
    /\ delivered \in [Messages -> [Urls -> Nat]]
    /\ stable \in [Messages -> SUBSET Urls]

\* the list against the table, before, during and after a request
ListInv ==
    /\ (\A r \in Requests : reqPc[r] = "idle") => Exactly(slice, database)
    /\ \A r \in Requests :
        /\ reqPc[r] = "add" =>
            \E set \in SUBSET Urls :
                Exactly(slice, set) /\ database = set \cup {reqUrl[r]}
        /\ reqPc[r] = "remove" =>
            \E set \in SUBSET Urls :
                Exactly(slice, set) /\ database = set \ {reqUrl[r]}
        /\ reqPc[r] = "store" =>
            /\ Exactly(reqSlice[r], database)
            /\ slice.len <= reqSlice[r].len => Distinct(slice)

\* a message in the loop has served the cells before its index
InLoop(m) ==
    LET s == range[m] IN
    /\ index[m] <= s.len
    /\ Distinct(s)
    /\ \A u \in stable[m] : \E i \in 1..s.len : UrlAt(s, i) = u
    /\ \A i \in 1..s.len :
        delivered[m][UrlAt(s, i)] =
            IF i <= index[m] /\ Accepts(UrlAt(s, i), m) THEN 1 ELSE 0
    /\ Fits(s, slice)
    /\ \A r \in Requests : reqPc[r] = "store" => Fits(s, reqSlice[r])

OnTrack(m) ==
    /\ pc[m] \in {"idle", "queued"} =>
        index[m] = 0 /\ \A u \in Urls : delivered[m][u] = 0
    /\ pc[m] \in {"next", "sending"} => InLoop(m)
    /\ ServedOnce(m)

MessageInv == \A m \in Messages \ disturbed : OnTrack(m)

Inv == ListTypes /\ RequestTypes /\ MessageTypes /\ ListInv /\ MessageInv

-----------------------------------------------------------------------------
(* What a header lists *)

LEMMA CellsAre ==
    ASSUME NEW A \in Seq(Seq(Nat)), NEW s \in Headers,
           s.array \in DOMAIN A, s.len \in 0..Len(A[s.array])
    PROVE  \A i \in 1..s.len : SubSeq(A[s.array], 1, s.len)[i] = A[s.array][i]
<1>1. A[s.array] \in Seq(Nat) /\ s.len \in Nat
  BY DEF Headers
<1>2. \A i \in 1..s.len : A[s.array][i] \in Nat
  BY <1>1
<1>3. 1 \in Int /\ s.len \in Int
  BY <1>1
<1>4. \A i \in 1..(s.len - 1 + 1) :
         SubSeq(A[s.array], 1, s.len)[i] = A[s.array][1 + i - 1]
  BY <1>2, <1>3, SubSeqProperties
<1> QED
  BY <1>1, <1>4

LEMMA ListedIs ==
    ASSUME ListTypes, NEW s \in Headers, Header(s)
    PROVE  /\ \A i \in 1..s.len : Cells(s)[i] = arrays[s.array][i]
           /\ Listed(s) = {UrlAt(s, i) : i \in 1..s.len}
           /\ \A i \in 1..s.len : UrlAt(s, i) \in Urls
<1>1. \A i \in 1..s.len : Cells(s)[i] = arrays[s.array][i]
  BY CellsAre DEF ListTypes, Header, Cells
<1>2. Listed(s) = {UrlAt(s, i) : i \in 1..s.len}
  BY <1>1 DEF Listed, UrlAt
<1>3. \A i \in 1..s.len : UrlAt(s, i) \in Urls
  <2>1. \A i \in 1..s.len : arrays[s.array][i] \in 1..Len(urls)
    BY DEF Header, made
  <2>2. urls \in [1..Len(urls) -> Urls]
    BY DEF ListTypes
  <2> QED
    BY <2>1, <2>2, Zenon DEF UrlAt
<1> QED
  BY <1>1, <1>2, <1>3

\* A list of distinct urls is as long as the set of them.
LEMMA LengthOf ==
    ASSUME ListTypes, NEW s \in Headers, Header(s), NEW set, Exactly(s, set)
    PROVE  /\ Listed(s) = set /\ s.len = Cardinality(set)
           /\ s.len <= Cardinality(Urls)
<1> DEFINE at == [i \in 1..s.len |-> UrlAt(s, i)]
<1>1. Listed(s) = set
  BY ListedIs DEF Exactly
<1>2. s.len \in Nat /\ IsFiniteSet(1..s.len) /\ Cardinality(1..s.len) = s.len
  BY UpTo DEF Headers
<1>3. at \in Bijection(1..s.len, set)
  <2>1. at \in [1..s.len -> set]
    BY DEF Exactly
  <2>2. \A i, j \in 1..s.len : at[i] = at[j] => i = j
    BY DEF Exactly, Distinct
  <2>3. \A u \in set : \E i \in 1..s.len : at[i] = u
    BY DEF Exactly
  <2> HIDE DEF at
  <2>4. at \in Injection(1..s.len, set)
    BY <2>1, <2>2 DEF Injection, IsInjective
  <2>5. at \in Surjection(1..s.len, set)
    BY <2>1, <2>3, Zenon DEF Surjection
  <2> QED
    BY <2>4, <2>5 DEF Bijection
<1>4. s.len = Cardinality(set)
  BY <1>2, <1>3, FS_Bijection DEF ExistsBijection
<1>5. set \in SUBSET Urls
  BY ListedIs, <1>1
<1>6. Cardinality(set) <= Cardinality(Urls)
  BY <1>5, FS_Subset, DispatchingAssumption
<1> QED
  BY <1>1, <1>4, <1>6

\* Between requests the list in memory is the table.
LEMMA InvImpliesMemory == Inv => MemoryIsDatabase
<1> SUFFICES ASSUME Inv, \A r \in Requests : reqPc[r] = "idle"
             PROVE  Listed(slice) = database /\ slice.len = Cardinality(database)
  BY DEF MemoryIsDatabase
<1>1. ListTypes /\ slice \in Headers /\ Header(slice) /\ Exactly(slice, database)
  BY DEF Inv, ListTypes, ListInv
<1> QED
  BY <1>1, LengthOf

LEMMA InvImpliesOnce == Inv => OnceUnlessRemoved
BY DEF Inv, MessageInv, OnTrack, OnceUnlessRemoved

-----------------------------------------------------------------------------
(* The start *)

\* append makes room and keeps the cells
LEMMA Growing ==
    ASSUME NEW s \in Seq(Nat), NEW n \in 0..(Cardinality(Urls) + MaxOps), Len(s) <= n
    PROVE  /\ Grown(s, n) \in Seq(Nat) /\ n <= Len(Grown(s, n))
           /\ \A i \in 1..Len(s) : Grown(s, n)[i] = s[i]
<1>1. Capacity[n] \in Nat /\ n <= Capacity[n] /\ n \in Nat /\ Len(s) \in Nat
  BY DispatchingAssumption
<1>2. \A i \in 1..Capacity[n] : (IF i <= Len(s) THEN s[i] ELSE 0) \in Nat
  BY <1>1
<1>3. /\ Grown(s, n) \in Seq(Nat) /\ Len(Grown(s, n)) = Capacity[n]
      /\ \A i \in 1..Capacity[n] : Grown(s, n)[i] = IF i <= Len(s) THEN s[i] ELSE 0
  BY <1>1, <1>2 DEF Grown
<1>4. \A i \in 1..Len(s) : i \in 1..Capacity[n] /\ i <= Len(s)
  BY <1>1
<1>5. \A i \in 1..Len(s) : Grown(s, n)[i] = s[i]
  BY <1>3, <1>4
<1> QED
  BY <1>1, <1>3, <1>5

LEMMA SizeOfUrls == Cardinality(Urls) \in Nat /\ MaxOps \in Nat
BY DispatchingAssumption, FS_CardinalityType

LEMMA InitInv == Init => Inv
<1> SUFFICES ASSUME Init PROVE Inv
  OBVIOUS
<1> DEFINE first == [i \in 1..Len(urls) |-> i]
<1>1. PICK n \in 0..Cardinality(Urls) :
         urls \in {u \in [1..n -> Urls] : \A i, j \in 1..n : u[i] = u[j] => i = j}
  BY DEF Init
<1>2. /\ urls \in Seq(Urls) /\ Len(urls) = n /\ n \in Nat
      /\ \A i, j \in 1..n : urls[i] = urls[j] => i = j
      /\ n \in 0..(Cardinality(Urls) + MaxOps)
  BY <1>1, SizeOfUrls
<1>3. first \in Seq(Nat) /\ Len(first) = n /\ \A i \in 1..n : first[i] = i
  BY <1>2
<1> HIDE DEF first
<1>4. /\ Grown(first, n) \in Seq(Nat) /\ n <= Len(Grown(first, n))
      /\ \A i \in 1..n : Grown(first, n)[i] = i
  <2>1. n \in 0..(Cardinality(Urls) + MaxOps) /\ Len(first) <= n
    BY <1>2, <1>3
  <2>2. /\ Grown(first, n) \in Seq(Nat) /\ n <= Len(Grown(first, n))
        /\ \A i \in 1..Len(first) : Grown(first, n)[i] = first[i]
    BY <1>3, <2>1, Growing
  <2> QED
    BY <1>3, <2>2
<1>5. arrays = <<Grown(first, n)>> /\ slice = [array |-> 1, len |-> n]
  BY <1>2 DEF Init, first
<1>6. ListTypes /\ database = {urls[i] : i \in 1..n} /\ slice \in Headers
  <2>1. database = {urls[i] : i \in 1..n}
    BY <1>2 DEF Init
  <2>2. arrays \in Seq(Seq(Nat)) /\ DOMAIN arrays = 1..1 /\ arrays[1] = Grown(first, n)
    BY <1>4, <1>5
  <2>3. slice \in Headers /\ Header(slice)
    BY <1>2, <1>4, <1>5, <2>2 DEF Headers, Header, made
  <2> QED
    BY <1>2, <2>1, <2>2, <2>3 DEF ListTypes
<1>7. \A i \in 1..slice.len : UrlAt(slice, i) = urls[i]
  BY <1>4, <1>5 DEF UrlAt
<1>8. Exactly(slice, database)
  BY <1>2, <1>5, <1>6, <1>7 DEF Exactly, Distinct
<1>9. ListInv
  BY <1>8 DEF Init, ListInv
<1>10. RequestTypes
  <2>1. /\ reqPc = [r \in Requests |-> "idle"] /\ reqUrl = [r \in Requests |-> ""]
        /\ reqSlice = [r \in Requests |-> slice]
    BY DEF Init
  <2>2. /\ reqPc \in [Requests -> {"idle", "add", "remove", "store"}]
        /\ reqUrl \in [Requests -> Urls \cup {""}]
        /\ \A r \in Requests : reqPc[r] = "idle"
    BY <2>1
  <2>3. reqSlice \in [Requests -> Headers]
    BY <1>6, <2>1
  <2>4. ops \in 0..MaxOps
    <3>1. ops = 0
      BY DEF Init
    <3> QED
      BY <3>1, SizeOfUrls
  <2>5. \A r \in Requests :
           /\ reqPc[r] # "idle" => ops # 0
           /\ reqPc[r] \in {"add", "remove"} => reqUrl[r] \in Urls
           /\ reqPc[r] = "store" => Header(reqSlice[r])
    BY <2>2
  <2> QED
    BY <2>2, <2>3, <2>4, <2>5 DEF RequestTypes
<1>11. MessageTypes
  BY <1>6 DEF Init, MessageTypes, ListTypes
<1>12. MessageInv
  BY DEF Init, MessageInv, OnTrack, ServedOnce
<1> QED
  BY <1>6, <1>9, <1>10, <1>11, <1>12 DEF Inv

-----------------------------------------------------------------------------
(* The steps of a message *)

\* They change neither the list nor the requests.
LEMMA ListStays ==
    ASSUME Inv, UNCHANGED <<listVars, database, reqVars>>
    PROVE  ListTypes' /\ RequestTypes' /\ ListInv'
<1>1. \A s : Header(s)' = Header(s) /\ Distinct(s)' = Distinct(s)
  BY DEF listVars, Header, Distinct, UrlAt, made
<1>2. \A s, set : Exactly(s, set)' = Exactly(s, set)
  BY <1>1 DEF listVars, Exactly, UrlAt
<1>3. ListTypes'
  BY <1>1 DEF Inv, ListTypes, listVars
<1>4. RequestTypes'
  BY <1>1 DEF Inv, RequestTypes, listVars, reqVars
<1>5. ListInv'
  BY <1>1, <1>2 DEF Inv, ListInv, listVars, reqVars
<1> QED
  BY <1>3, <1>4, <1>5

\* A message that is not served in this step goes on as before.
LEMMA LoopStays ==
    ASSUME Inv, NEW m \in Messages, InLoop(m),
           UNCHANGED <<range[m], index[m], delivered[m]>>, stable'[m] \subseteq stable[m],
           \A i \in 1..range[m].len :
                urls'[arrays'[range[m].array][i]] = UrlAt(range[m], i),
           Fits(range[m], slice'),
           \A r \in Requests : reqPc'[r] = "store" => Fits(range[m], reqSlice'[r])
    PROVE  InLoop(m)'
<1> DEFINE s == range[m]
<1>1. range'[m] = s /\ index'[m] = index[m] /\ delivered'[m] = delivered[m]
  OBVIOUS
<1>2. \A i \in 1..s.len : UrlAt(s, i)' = UrlAt(s, i)
  BY <1>1 DEF UrlAt
<1>3. Distinct(s)'
  BY <1>1, <1>2 DEF Distinct, InLoop
<1> QED
  BY <1>1, <1>2, <1>3 DEF InLoop, Fits

\* The other messages do not notice.
LEMMA OthersStay ==
    ASSUME Inv, NEW q \in Messages, UNCHANGED <<listVars, database, reqVars>>,
           disturbed \subseteq disturbed',
           \A m \in Messages \ {q} :
                UNCHANGED <<pc[m], range[m], index[m], delivered[m], stable[m]>>,
           q \in disturbed' \/ OnTrack(q)'
    PROVE  MessageInv'
<1> SUFFICES ASSUME NEW m \in Messages \ disturbed', m # q PROVE OnTrack(m)'
  BY DEF MessageInv
<1>1. /\ pc'[m] = pc[m] /\ range'[m] = range[m] /\ index'[m] = index[m]
      /\ delivered'[m] = delivered[m] /\ stable'[m] = stable[m]
  OBVIOUS
<1>2. OnTrack(m)
  BY DEF Inv, MessageInv
<1>3. InLoop(m) => InLoop(m)'
  <2> SUFFICES ASSUME InLoop(m) PROVE InLoop(m)'
    OBVIOUS
  <2>1. /\ UNCHANGED <<arrays, urls, slice, reqPc, reqSlice>>
        /\ UNCHANGED <<range[m], index[m], delivered[m]>> /\ stable'[m] \subseteq stable[m]
    BY <1>1 DEF listVars, reqVars
  <2>2. \A i \in 1..range[m].len :
           urls'[arrays'[range[m].array][i]] = UrlAt(range[m], i)
    BY <2>1 DEF UrlAt
  <2>3. /\ Fits(range[m], slice')
        /\ \A r \in Requests : reqPc'[r] = "store" => Fits(range[m], reqSlice'[r])
    BY <2>1 DEF InLoop
  <2> QED
    BY <1>1, <2>1, <2>2, <2>3, LoopStays
<1>4. ServedOnce(m)'
  BY <1>1, <1>2 DEF OnTrack, ServedOnce
<1> QED
  BY <1>1, <1>2, <1>3, <1>4 DEF OnTrack

LEMMA TriggerKeepsInv ==
    ASSUME Inv, NEW q \in Messages, Trigger(q)
    PROVE  Inv'
<1>1. /\ UNCHANGED <<listVars, database, reqVars>> /\ disturbed' = disturbed
      /\ UNCHANGED <<range, index, delivered, stable>>
      /\ pc' = [pc EXCEPT ![q] = "queued"] /\ pc[q] = "idle"
  BY DEF Trigger, history
<1>2. ListTypes' /\ RequestTypes' /\ ListInv'
  BY <1>1, ListStays
<1>3. pc \in [Messages -> {"idle", "queued", "next", "sending", "done"}]
  BY DEF Inv, MessageTypes
<1>4. MessageTypes'
  <2>1. pc' \in [Messages -> {"idle", "queued", "next", "sending", "done"}]
    BY <1>1, <1>3
  <2>2. \A m \in Messages : Header(range[m])'
    BY <1>1 DEF Inv, MessageTypes, Header, listVars, made
  <2> QED
    BY <1>1, <2>1, <2>2 DEF Inv, MessageTypes
<1>5. pc'[q] = "queued" /\ \A m \in Messages \ {q} : pc'[m] = pc[m]
  BY <1>1, <1>3
<1>6. OnTrack(q) => OnTrack(q)'
  BY <1>1, <1>5 DEF OnTrack, ServedOnce
<1>7. q \in disturbed' \/ OnTrack(q)'
  BY <1>1, <1>6 DEF Inv, MessageInv
<1>8. MessageInv'
  BY <1>1, <1>5, <1>7, OthersStay
<1> QED
  BY <1>2, <1>4, <1>8 DEF Inv

LEMMA BeginRangeKeepsInv ==
    ASSUME Inv, NEW q \in Messages, BeginRange(q)
    PROVE  Inv'
<1>1. /\ UNCHANGED <<listVars, database, reqVars>> /\ UNCHANGED <<index, delivered>>
      /\ pc[q] = "queued"
      /\ pc' = [pc EXCEPT ![q] = IF slice.len = 0 THEN "done" ELSE "next"]
      /\ range' = [range EXCEPT ![q] = slice]
      /\ stable' = [stable EXCEPT ![q] = Listed(slice)]
  BY DEF BeginRange
<1>2. /\ disturbed \subseteq disturbed'
      /\ \/ q \in disturbed'
         \/ \A r \in Requests : reqPc[r] = "store" => ~ (reqSlice[r].len < slice.len)
  BY DEF BeginRange
<1>3. /\ ListTypes /\ slice \in Headers /\ Header(slice) /\ slice.len \in Nat
      /\ MessageTypes /\ RequestTypes /\ ListInv
  BY DEF Inv, ListTypes, Headers
<1>4. /\ Listed(slice) = {UrlAt(slice, i) : i \in 1..slice.len}
      /\ \A i \in 1..slice.len : UrlAt(slice, i) \in Urls
  BY <1>3, ListedIs
<1>5. ListTypes' /\ RequestTypes' /\ ListInv'
  BY <1>1, ListStays
<1>6. /\ pc'[q] = (IF slice.len = 0 THEN "done" ELSE "next")
      /\ range'[q] = slice /\ stable'[q] = Listed(slice)
      /\ \A m \in Messages \ {q} :
            pc'[m] = pc[m] /\ range'[m] = range[m] /\ stable'[m] = stable[m]
  BY <1>1, <1>3 DEF MessageTypes
<1>7. MessageTypes'
  <2>1. \A m \in Messages : Header(range'[m])
    BY <1>3, <1>6 DEF MessageTypes
  <2>2. \A m \in Messages : Header(range[m])'
    BY <1>1, <2>1 DEF Header, listVars, made
  <2>3. Listed(slice) \in SUBSET Urls
    BY <1>4
  <2>4. pc' \in [Messages -> {"idle", "queued", "next", "sending", "done"}]
    BY <1>1, <1>3 DEF MessageTypes
  <2>5. /\ range' \in [Messages -> Headers] /\ stable' \in [Messages -> SUBSET Urls]
        /\ index' \in [Messages -> Nat] /\ delivered' \in [Messages -> [Urls -> Nat]]
    BY <1>1, <1>3, <2>3 DEF MessageTypes
  <2> QED
    BY <2>2, <2>4, <2>5 DEF MessageTypes
<1>8. ASSUME q \notin disturbed' PROVE OnTrack(q)'
  <2>1. \A r \in Requests : reqPc[r] = "store" => slice.len <= reqSlice[r].len
    <3>1. \A r \in Requests : reqSlice[r] \in Headers
      BY <1>3 DEF RequestTypes
    <3>2. \A r \in Requests : reqSlice[r].len \in Nat
      BY <3>1 DEF Headers
    <3> QED
      BY <1>2, <1>3, <1>8, <3>2
  <2>2. Distinct(slice)
    <3>1. CASE \A r \in Requests : reqPc[r] = "idle"
      BY <1>3, <3>1 DEF ListInv, Exactly
    <3>2. ASSUME NEW r \in Requests, reqPc[r] # "idle" PROVE Distinct(slice)
      <4>1. reqPc[r] \in {"add", "remove", "store"}
        BY <1>3, <3>2 DEF RequestTypes
      <4> QED
        BY <1>3, <2>1, <4>1 DEF ListInv, Exactly
    <3> QED
      BY <3>1, <3>2
  <2>3. index[q] = 0 /\ \A u \in Urls : delivered[q][u] = 0
    BY <1>1, <1>2, <1>8 DEF Inv, MessageInv, OnTrack
  <2>4. CASE slice.len = 0
    <3>1. pc'[q] = "done" /\ stable'[q] = {}
      BY <1>4, <1>6, <2>4
    <3> QED
      BY <3>1 DEF OnTrack, ServedOnce
  <2>5. CASE slice.len # 0
    <3>1. pc'[q] = "next" /\ range'[q] = slice /\ slice' = slice
      BY <1>1, <1>6, <2>5 DEF listVars
    <3>2. \A i \in 1..slice.len : UrlAt(slice, i)' = UrlAt(slice, i)
      BY <1>1 DEF UrlAt, listVars
    <3>3. Distinct(slice)'
      BY <2>2, <3>1, <3>2 DEF Distinct
    <3>4. \A u \in stable'[q] : \E i \in 1..slice.len : UrlAt(slice, i)' = u
      BY <1>4, <1>6, <3>2
    <3>5. \A i \in 1..slice.len : delivered'[q][UrlAt(slice, i)] = 0
      BY <1>1, <1>3, <1>4, <2>3
    <3>6. /\ Fits(slice, slice)'
          /\ \A r \in Requests : reqPc'[r] = "store" => Fits(slice, reqSlice[r])'
      BY <1>1, <1>3, <2>1, <3>1 DEF Fits, reqVars
    <3>7. range[q]' = slice /\ index[q]' = 0 /\ slice.len \in Nat
      BY <1>1, <1>3, <2>3, <3>1
    <3>8. index'[q] <= slice.len /\ \A i \in 1..slice.len : ~ (i <= index'[q])
      BY <3>7
    <3>9. \A i \in 1..slice.len : delivered'[q][UrlAt(slice, i)'] = 0
      BY <3>2, <3>5
    <3>10. InLoop(q)'
      BY <3>1, <3>3, <3>4, <3>6, <3>7, <3>8, <3>9 DEF InLoop
    <3> QED
      BY <3>1, <3>10 DEF OnTrack, ServedOnce
  <2> QED
    BY <2>4, <2>5
<1>9. MessageInv'
  BY <1>1, <1>2, <1>6, <1>8, OthersStay
<1> QED
  BY <1>5, <1>7, <1>9 DEF Inv

LEMMA ServeKeepsInv ==
    ASSUME Inv, NEW q \in Messages, Serve(q)
    PROVE  Inv'
<1> DEFINE s == range[q]
           i == index[q] + 1
           u == UrlAt(s, i)
<1>1. /\ UNCHANGED <<listVars, database, reqVars>> /\ UNCHANGED <<range, stable>>
      /\ disturbed' = disturbed
      /\ pc[q] = "next" /\ index[q] < s.len
      /\ index' = [index EXCEPT ![q] = i]
      /\ \/ /\ Accepts(u, q) /\ pc' = [pc EXCEPT ![q] = "sending"]
            /\ delivered' = [delivered EXCEPT ![q][u] = @ + 1]
         \/ ~ Accepts(u, q) /\ UNCHANGED <<pc, delivered>>
  BY DEF Serve, UrlAt, history
<1>2. ListTypes /\ MessageTypes /\ s \in Headers /\ Header(s) /\ s.len \in Nat /\ index[q] \in Nat
  BY DEF Inv, MessageTypes, Headers
<1>3. i \in 1..s.len /\ i \in Nat
  BY <1>1, <1>2
<1>4. \A j \in 1..s.len : UrlAt(s, j) \in Urls
  BY <1>2, ListedIs
<1>5. delivered[q] \in [Urls -> Nat] /\ u \in Urls
  BY <1>2, <1>3, <1>4 DEF MessageTypes
<1> HIDE DEF i, u
<1>6. /\ index'[q] = i /\ pc'[q] \in {"next", "sending"}
      /\ \A m \in Messages \ {q} :
            pc'[m] = pc[m] /\ index'[m] = index[m] /\ delivered'[m] = delivered[m]
  BY <1>1, <1>2 DEF MessageTypes
<1>7. delivered'[q] = IF Accepts(u, q)
                      THEN [delivered[q] EXCEPT ![u] = @ + 1] ELSE delivered[q]
  BY <1>1, <1>2 DEF MessageTypes
<1>8. ListTypes' /\ RequestTypes' /\ ListInv'
  BY <1>1, ListStays
<1>9. MessageTypes'
  <2>1. pc' \in [Messages -> {"idle", "queued", "next", "sending", "done"}]
    BY <1>1, <1>2 DEF MessageTypes
  <2>2. index' \in [Messages -> Nat]
    BY <1>1, <1>2, <1>3 DEF MessageTypes
  <2>3. delivered' \in [Messages -> [Urls -> Nat]]
    <3>1. [delivered[q] EXCEPT ![u] = @ + 1] \in [Urls -> Nat]
      BY <1>5
    <3> QED
      BY <1>1, <1>2, <3>1 DEF MessageTypes
  <2>4. \A m \in Messages : Header(range[m])'
    BY <1>1, <1>2 DEF MessageTypes, Header, listVars, made
  <2> QED
    BY <1>1, <1>2, <2>1, <2>2, <2>3, <2>4 DEF MessageTypes
<1>10. ASSUME q \notin disturbed PROVE OnTrack(q)'
  <2>1. InLoop(q)
    BY <1>1, <1>10 DEF Inv, MessageInv, OnTrack
  <2>2. \A j \in 1..s.len : UrlAt(s, j)' = UrlAt(s, j)
    BY <1>1 DEF UrlAt, listVars
  <2>3. \A j \in 1..s.len : j # i => UrlAt(s, j) # u
    BY <1>3, <2>1 DEF InLoop, Distinct, u
  <2>4. \A j \in 1..s.len : j # i => delivered'[q][UrlAt(s, j)] = delivered[q][UrlAt(s, j)]
    BY <1>4, <1>5, <1>7, <2>3
  <2>5. \A j \in 1..s.len :
           delivered[q][UrlAt(s, j)] =
               IF j <= index[q] /\ Accepts(UrlAt(s, j), q) THEN 1 ELSE 0
    BY <2>1 DEF InLoop
  <2>6. delivered'[q][u] = IF Accepts(u, q) THEN 1 ELSE 0
    <3>1. delivered[q][u] = 0
      <4>1. ~ (i <= index[q])
        BY <1>2 DEF i
      <4> QED
        BY <1>3, <2>5, <4>1 DEF u
    <3> QED
      BY <1>5, <1>7, <3>1
  <2>7. \A j \in 1..s.len : j # i => (j <= index[q] <=> j <= i)
    BY <1>2, <1>3 DEF i
  <2>8. ASSUME NEW j \in 1..s.len
        PROVE  delivered'[q][UrlAt(s, j)] =
                   IF j <= i /\ Accepts(UrlAt(s, j), q) THEN 1 ELSE 0
    <3>1. CASE j = i
      BY <1>3, <2>6, <3>1 DEF u
    <3>2. CASE j # i
      BY <2>4, <2>5, <2>7, <3>2
    <3> QED
      BY <3>1, <3>2
  <2>9. /\ range[q]' = s /\ index[q]' = i /\ i <= s.len /\ stable[q]' = stable[q]
        /\ slice' = slice /\ reqPc' = reqPc /\ reqSlice' = reqSlice
    BY <1>1, <1>2, <1>3, <1>6 DEF listVars, reqVars
  <2>10. Distinct(s)'
    BY <2>1, <2>2, <2>9 DEF InLoop, Distinct
  <2>11. InLoop(q)'
    BY <2>1, <2>2, <2>8, <2>9, <2>10 DEF InLoop, Fits
  <2> QED
    BY <1>6, <2>11 DEF OnTrack, ServedOnce
<1>11. MessageInv'
  BY <1>1, <1>6, <1>10, OthersStay
<1> QED
  BY <1>8, <1>9, <1>11 DEF Inv

LEMMA ServedKeepsInv ==
    ASSUME Inv, NEW q \in Messages, Served(q) \/ Answer(q)
    PROVE  Inv'
<1>1. /\ UNCHANGED <<listVars, database, reqVars>>
      /\ UNCHANGED <<range, index, delivered, stable>>
      /\ disturbed' = disturbed
      /\ \/ /\ pc[q] = "next" /\ index[q] = range[q].len
            /\ pc' = [pc EXCEPT ![q] = "done"]
         \/ pc[q] = "sending" /\ pc' = [pc EXCEPT ![q] = "next"]
  BY DEF Served, Answer, history, MarkSuccess, MarkFailure
<1>2. MessageTypes /\ range[q] \in Headers /\ Header(range[q]) /\ range[q].len \in Nat
  BY DEF Inv, MessageTypes, Headers
<1>3. /\ \/ pc'[q] = "done" /\ pc[q] = "next" /\ index[q] = range[q].len
         \/ pc'[q] = "next" /\ pc[q] = "sending"
      /\ \A m \in Messages \ {q} : pc'[m] = pc[m]
  BY <1>1, <1>2 DEF MessageTypes
<1>4. ListTypes' /\ RequestTypes' /\ ListInv'
  BY <1>1, ListStays
<1>5. MessageTypes'
  <2>1. pc' \in [Messages -> {"idle", "queued", "next", "sending", "done"}]
    BY <1>1, <1>2 DEF MessageTypes
  <2>2. \A m \in Messages : Header(range[m])'
    BY <1>1, <1>2 DEF MessageTypes, Header, listVars, made
  <2> QED
    BY <1>1, <1>2, <2>1, <2>2 DEF MessageTypes
<1>6. ASSUME q \notin disturbed PROVE OnTrack(q)'
  <2>1. InLoop(q)
    BY <1>1, <1>6 DEF Inv, MessageInv, OnTrack
  <2>2. CASE pc'[q] = "next"
    <3>1. InLoop(q)'
      BY <1>1, <2>1 DEF InLoop, Distinct, UrlAt, Fits, listVars, reqVars
    <3> QED
      BY <2>2, <3>1 DEF OnTrack, ServedOnce
  <2>3. CASE pc'[q] = "done" /\ index[q] = range[q].len
    <3>1. ASSUME NEW u \in stable[q]
          PROVE  delivered[q][u] = IF Accepts(u, q) THEN 1 ELSE 0
      <4>1. PICK i \in 1..range[q].len : UrlAt(range[q], i) = u
        BY <2>1 DEF InLoop
      <4>2. i <= index[q]
        BY <1>2, <2>3
      <4> QED
        BY <2>1, <4>1, <4>2 DEF InLoop
    <3>2. ServedOnce(q)'
      BY <1>1, <3>1 DEF ServedOnce
    <3> QED
      BY <2>3, <3>2 DEF OnTrack
  <2> QED
    BY <1>3, <2>2, <2>3
<1>7. MessageInv'
  BY <1>1, <1>3, <1>6, OthersStay
<1> QED
  BY <1>4, <1>5, <1>7 DEF Inv

-----------------------------------------------------------------------------
(* The steps of a request *)

\* The messages, where a step of a request keeps the urls of the cells that a
\* message in the loop may still read.
LEMMA MessagesStay ==
    ASSUME Inv, NEW busy, busy \subseteq Messages,
           UNCHANGED <<pc, range, index, delivered>>,
           \A m \in Messages : stable'[m] \subseteq stable[m],
           disturbed \subseteq disturbed',
           \A m \in Messages \ disturbed' : pc[m] \in {"next", "sending"} => m \in busy,
           \A m \in busy :
                \A i \in 1..range[m].len :
                    urls'[arrays'[range[m].array][i]] = UrlAt(range[m], i),
           \A m \in busy \ disturbed' : InLoop(m) =>
                /\ Fits(range[m], slice')
                /\ \A r \in Requests :
                        reqPc'[r] = "store" => Fits(range[m], reqSlice'[r])
    PROVE  MessageInv'
<1> SUFFICES ASSUME NEW m \in Messages \ disturbed' PROVE OnTrack(m)'
  BY DEF MessageInv
<1>1. OnTrack(m) /\ pc' = pc /\ index' = index /\ delivered' = delivered
  BY DEF Inv, MessageInv
<1>2. ServedOnce(m)'
  BY <1>1 DEF OnTrack, ServedOnce
<1>3. ASSUME pc[m] \in {"next", "sending"} PROVE InLoop(m)'
  <2>1. InLoop(m) /\ m \in busy
    BY <1>1, <1>3 DEF OnTrack
  <2>2. /\ Fits(range[m], slice')
        /\ \A r \in Requests : reqPc'[r] = "store" => Fits(range[m], reqSlice'[r])
    BY <2>1
  <2>3. UNCHANGED <<range[m], index[m], delivered[m]>> /\ stable'[m] \subseteq stable[m]
    OBVIOUS
  <2> QED
    BY <2>1, <2>2, <2>3, LoopStays
<1> QED
  BY <1>1, <1>2, <1>3 DEF OnTrack

\* A request that begins while the others are idle.
LEMMA BeginKeepsInv ==
    ASSUME Inv, NEW r \in Requests, Begin(r), ~clashed'
    PROVE  Inv'
<1>1. PICK u \in Urls, op \in Ops :
         /\ reqUrl' = [reqUrl EXCEPT ![r] = u] /\ reqPc' = [reqPc EXCEPT ![r] = op]
         /\ database' = IF op = "add" THEN database \cup {u} ELSE database \ {u}
  BY DEF Begin
<1>2. /\ UNCHANGED <<listVars, goVars, reqSlice, stable, disturbed>>
      /\ reqPc[r] = "idle" /\ ops' = ops + 1 /\ ops < MaxOps
      /\ \A q \in Requests : reqPc[q] = "idle"
  BY DEF Begin
<1>3. op \in {"add", "remove"}
  BY DispatchingAssumption
<1>4. /\ reqPc'[r] = op /\ reqUrl'[r] = u
      /\ \A q \in Requests : q # r => reqPc'[q] = "idle"
      /\ ListTypes /\ RequestTypes /\ MessageTypes /\ ListInv
  BY <1>1, <1>2 DEF Inv, RequestTypes
<1>5. Exactly(slice, database)
  BY <1>2, <1>4 DEF ListInv
<1>6. ListTypes'
  <2>1. database' \in SUBSET Urls
    BY <1>1, <1>4 DEF ListTypes
  <2> QED
    BY <1>2, <1>4, <2>1 DEF ListTypes, Header, listVars, made
<1>7. RequestTypes'
  <2>1. /\ reqPc' \in [Requests -> {"idle", "add", "remove", "store"}]
        /\ reqUrl' \in [Requests -> Urls \cup {""}]
    BY <1>1, <1>3, <1>4 DEF RequestTypes
  <2>2. ops' \in 0..MaxOps /\ ops' # 0
    <3>1. ops \in 0..MaxOps /\ ops < MaxOps /\ ops' = ops + 1
      BY <1>2, <1>4 DEF RequestTypes
    <3> QED
      BY <3>1, SizeOfUrls
  <2>3. reqSlice' \in [Requests -> Headers]
    BY <1>2, <1>4 DEF RequestTypes
  <2>4. \A q \in Requests :
           reqPc'[q] # "store" /\ (reqPc'[q] # "idle" => reqUrl'[q] \in Urls)
    BY <1>3, <1>4
  <2> QED
    BY <2>1, <2>2, <2>3, <2>4 DEF RequestTypes
<1>8. MessageTypes'
  BY <1>2, <1>4 DEF MessageTypes, Header, listVars, goVars, made
<1>9. ListInv'
  <2>1. \A set : Exactly(slice, set)' <=> Exactly(slice, set)
    <3>1. /\ slice' = slice /\ Distinct(slice)' = Distinct(slice)
          /\ \A i : UrlAt(slice, i)' = UrlAt(slice, i)
      BY <1>2 DEF Distinct, UrlAt, listVars
    <3> QED
      BY <3>1 DEF Exactly
  <2>2. database \in SUBSET Urls
    BY <1>4 DEF ListTypes
  <2>3. CASE op = "add"
    <3>1. \E set \in SUBSET Urls :
             Exactly(slice, set) /\ database' = set \cup {reqUrl'[r]}
      BY <1>1, <1>4, <1>5, <2>2, <2>3
    <3>2. \E set \in SUBSET Urls :
             Exactly(slice, set)' /\ database' = set \cup {reqUrl'[r]}
      BY <2>1, <3>1
    <3> QED
      BY <1>4, <2>3, <3>2 DEF ListInv
  <2>4. CASE op = "remove"
    <3>1. \E set \in SUBSET Urls :
             Exactly(slice, set) /\ database' = set \ {reqUrl'[r]}
      BY <1>1, <1>4, <1>5, <2>2, <2>4
    <3>2. \E set \in SUBSET Urls :
             Exactly(slice, set)' /\ database' = set \ {reqUrl'[r]}
      BY <2>1, <3>1
    <3> QED
      BY <1>4, <2>4, <3>2 DEF ListInv
  <2> QED
    BY <1>3, <2>3, <2>4
<1>10. MessageInv'
  <2>1. \A q \in Requests : reqPc'[q] # "store"
    BY <1>3, <1>4
  <2>2. \A m \in Messages : \A i \in 1..range[m].len :
           urls'[arrays'[range[m].array][i]] = UrlAt(range[m], i)
    BY <1>2 DEF listVars, UrlAt
  <2>3. \A m \in Messages : InLoop(m) => Fits(range[m], slice')
    BY <1>2 DEF listVars, InLoop
  <2>4. UNCHANGED <<pc, range, index, delivered, stable, disturbed>>
    BY <1>2 DEF goVars
  <2> QED
    BY <2>1, <2>2, <2>3, <2>4, MessagesStay
<1> QED
  BY <1>6, <1>7, <1>8, <1>9, <1>10 DEF Inv

\* Writing one cell changes this cell.
LEMMA Writing ==
    ASSUME ListTypes, NEW a \in DOMAIN arrays, NEW i \in 1..Len(arrays[a]), NEW o \in Nat,
           NEW new, new = [arrays[a] EXCEPT ![i] = o], arrays' = [arrays EXCEPT ![a] = new]
    PROVE  /\ arrays' \in Seq(Seq(Nat)) /\ DOMAIN arrays' = DOMAIN arrays
           /\ \A b \in DOMAIN arrays :
                /\ Len(arrays'[b]) = Len(arrays[b])
                /\ \A j \in 1..Len(arrays[b]) :
                    arrays'[b][j] = IF b = a /\ j = i THEN o ELSE arrays[b][j]
<1>1. arrays \in Seq(Seq(Nat)) /\ a \in 1..Len(arrays) /\ arrays[a] \in Seq(Nat)
  BY DEF ListTypes
<1>2. /\ new \in Seq(Nat) /\ Len(new) = Len(arrays[a])
      /\ \A j \in 1..Len(arrays[a]) : new[j] = IF j = i THEN o ELSE arrays[a][j]
  BY <1>1, ExceptSeq
<1>4. /\ arrays' \in Seq(Seq(Nat)) /\ Len(arrays') = Len(arrays)
      /\ \A b \in 1..Len(arrays) : arrays'[b] = IF b = a THEN new ELSE arrays[b]
  <2> DEFINE Arrays == Seq(Nat)
             w == [arrays EXCEPT ![a] = new]
  <2>1. new \in Arrays /\ arrays \in Seq(Arrays) /\ a \in 1..Len(arrays)
    BY <1>1, <1>2
  <2> HIDE DEF Arrays
  <2>2. /\ w \in Seq(Arrays) /\ Len(w) = Len(arrays)
        /\ \A b \in 1..Len(arrays) : w[b] = IF b = a THEN new ELSE arrays[b]
    BY <2>1, ExceptSeq
  <2>3. arrays' = w
    OBVIOUS
  <2> QED
    BY <2>2, <2>3 DEF Arrays
<1>5. DOMAIN arrays = 1..Len(arrays) /\ DOMAIN arrays' = 1..Len(arrays)
  BY <1>1, <1>4
<1>6. ASSUME NEW b \in DOMAIN arrays
      PROVE  /\ Len(arrays'[b]) = Len(arrays[b])
             /\ \A j \in 1..Len(arrays[b]) :
                    arrays'[b][j] = IF b = a /\ j = i THEN o ELSE arrays[b][j]
  <2>1. CASE b = a
    <3>1. arrays'[b] = new
      BY <1>1, <1>4, <2>1
    <3> QED
      BY <1>2, <2>1, <3>1
  <2>2. CASE b # a
    <3>1. arrays'[b] = arrays[b]
      BY <1>4, <1>5, <2>2
    <3> QED
      BY <2>2, <3>1
  <2> QED
    BY <2>1, <2>2
<1> QED
  BY <1>4, <1>5, <1>6

\* A header over arrays of which only cells change, and to the new dispatching.
LEMMA HeaderStays ==
    ASSUME ListTypes, NEW u \in Urls, urls' = Append(urls, u),
           DOMAIN arrays \subseteq DOMAIN arrays', NEW s \in Headers, Header(s),
           Len(arrays'[s.array]) = Len(arrays[s.array]),
           \A j \in 1..s.len :
                arrays'[s.array][j] \in {arrays[s.array][j], made + 1}
    PROVE  /\ Header(s)'
           /\ \A j \in 1..s.len :
                UrlAt(s, j)' = IF arrays'[s.array][j] = arrays[s.array][j]
                               THEN UrlAt(s, j) ELSE u
<1>1. /\ urls \in Seq(Urls) /\ made \in Nat /\ urls' \in Seq(Urls) /\ made' = made + 1
      /\ urls'[made + 1] = u /\ \A k \in 1..made : urls'[k] = urls[k]
  BY AppendProperties DEF ListTypes, made
<1>2. /\ s.array \in DOMAIN arrays /\ s.len \in 0..Len(arrays[s.array])
      /\ \A j \in 1..s.len : arrays[s.array][j] \in 1..made
  BY DEF Header
<1>3. ASSUME NEW j \in 1..s.len
      PROVE  /\ arrays'[s.array][j] \in 1..made'
             /\ UrlAt(s, j)' = IF arrays'[s.array][j] = arrays[s.array][j]
                               THEN UrlAt(s, j) ELSE u
  <2> DEFINE k == arrays[s.array][j]
             l == arrays'[s.array][j]
  <2>1. k \in 1..made
    BY <1>2
  <2>0. l \in {k, made + 1} /\ UrlAt(s, j)' = urls'[l] /\ UrlAt(s, j) = urls[k]
    BY DEF UrlAt
  <2> HIDE DEF k, l
  <2>4. made + 1 \in 1..made' /\ k \in 1..made'
    BY <1>1, <2>1
  <2>2. CASE l = k
    <3>1. urls'[k] = urls[k]
      BY <1>1, <2>1
    <3> QED
      BY <2>0, <2>2, <2>4, <3>1 DEF k, l
  <2>3. CASE l # k
    <3>1. l = made + 1
      BY <2>0, <2>3
    <3> QED
      BY <1>1, <2>0, <2>3, <2>4, <3>1 DEF k, l
  <2> QED
    BY <2>2, <2>3
<1> QED
  BY <1>2, <1>3 DEF Header

\* While a request acts the others are idle.
LEMMA OnlyOne ==
    ASSUME Inv, OneAtATime, NEW r \in Requests, NEW p \in {"idle", "store"},
           reqPc[r] # "idle", reqPc' = [reqPc EXCEPT ![r] = p]
    PROVE  /\ reqPc'[r] = p
           /\ \A q \in Requests : q # r => reqPc[q] = "idle" /\ reqPc'[q] = "idle"
BY DEF Inv, RequestTypes, OneAtATime

\* a new dispatching is written behind the list, to which the header t adds it
Appends(r, t) ==
    /\ reqPc[r] = "add" /\ \A i \in 1..slice.len : UrlAt(slice, i) # reqUrl[r]
    /\ t.len = slice.len + 1
    /\ t.array = slice.array \/ t.array \notin DOMAIN arrays
    /\ arrays' \in Seq(Seq(Nat)) /\ DOMAIN arrays \subseteq DOMAIN arrays'
    /\ t.array \in DOMAIN arrays' /\ t.len <= Len(arrays'[t.array])
    /\ \A i \in 1..slice.len : arrays'[t.array][i] = arrays[slice.array][i]
    /\ arrays'[t.array][t.len] = made + 1
    /\ \A a \in DOMAIN arrays :
        /\ Len(arrays'[a]) = Len(arrays[a])
        /\ \A j \in 1..Len(arrays[a]) :
            \/ arrays'[a][j] = arrays[a][j]
            \/ a = t.array /\ j = t.len /\ arrays'[a][j] = made + 1
    /\ urls' = Append(urls, reqUrl[r])
    /\ reqPc' = [reqPc EXCEPT ![r] = "store"]
    /\ reqSlice' = [reqSlice EXCEPT ![r] = t]
    /\ UNCHANGED <<slice, database, goVars, reqUrl, ops, history>>

LEMMA AppendedKeepsInv ==
    ASSUME Inv, OneAtATime, NEW r \in Requests, NEW t \in Headers, Appends(r, t)
    PROVE  Inv'
<1>0. /\ reqPc[r] = "add" /\ \A i \in 1..slice.len : UrlAt(slice, i) # reqUrl[r]
      /\ t.len = slice.len + 1
      /\ t.array = slice.array \/ t.array \notin DOMAIN arrays
      /\ arrays' \in Seq(Seq(Nat)) /\ DOMAIN arrays \subseteq DOMAIN arrays'
      /\ t.array \in DOMAIN arrays' /\ t.len <= Len(arrays'[t.array])
      /\ \A i \in 1..slice.len : arrays'[t.array][i] = arrays[slice.array][i]
      /\ arrays'[t.array][t.len] = made + 1
      /\ \A a \in DOMAIN arrays :
            /\ Len(arrays'[a]) = Len(arrays[a])
            /\ \A j \in 1..Len(arrays[a]) :
                 \/ arrays'[a][j] = arrays[a][j]
                 \/ a = t.array /\ j = t.len /\ arrays'[a][j] = made + 1
      /\ urls' = Append(urls, reqUrl[r])
      /\ reqPc' = [reqPc EXCEPT ![r] = "store"]
      /\ reqSlice' = [reqSlice EXCEPT ![r] = t]
      /\ UNCHANGED <<slice, database, goVars, reqUrl, ops, history>>
  BY DEF Appends
<1> USE <1>0
<1> DEFINE u == reqUrl[r]
<1>1. /\ ListTypes /\ RequestTypes /\ MessageTypes /\ ListInv
      /\ slice \in Headers /\ Header(slice) /\ slice.len \in Nat /\ t.len \in Nat
      /\ u \in Urls
  BY DEF Inv, ListTypes, RequestTypes, Headers
<1>2. /\ reqPc'[r] = "store" /\ reqSlice'[r] = t
      /\ \A q \in Requests : q # r => reqPc'[q] = "idle"
  BY <1>1, OnlyOne DEF RequestTypes
<1>3. PICK set \in SUBSET Urls : Exactly(slice, set) /\ database = set \cup {u}
  BY <1>1 DEF ListInv
<1> HIDE DEF u
<1>4. urls \in Seq(Urls) /\ urls' = Append(urls, u) /\ made \in Nat
  BY <1>1 DEF ListTypes, made, u
<1>5. urls' \in Seq(Urls) /\ made' = made + 1 /\ urls'[made + 1] = u
        /\ \A k \in 1..made : urls'[k] = urls[k]
  BY <1>1, <1>4, AppendProperties DEF made
<1>6. ASSUME NEW s \in Headers, Header(s)
      PROVE  /\ Header(s)'
             /\ Fits(s, slice) =>
                  \A j \in 1..s.len : UrlAt(s, j)' = UrlAt(s, j)
  <2>1. /\ s.array \in DOMAIN arrays /\ s.len \in 0..Len(arrays[s.array]) /\ s.len \in Nat
        /\ Len(arrays'[s.array]) = Len(arrays[s.array])
    BY <1>6 DEF Header, Headers
  <2>2. \A j \in 1..s.len : j \in 1..Len(arrays[s.array])
    BY <1>1, <2>1 DEF ListTypes
  <2>3. \A j \in 1..s.len : arrays'[s.array][j] \in {arrays[s.array][j], made + 1}
    BY <2>1, <2>2
  <2>4. /\ Header(s)'
        /\ \A j \in 1..s.len :
             UrlAt(s, j)' = IF arrays'[s.array][j] = arrays[s.array][j]
                            THEN UrlAt(s, j) ELSE u
    BY <1>1, <1>4, <1>6, <2>1, <2>3, HeaderStays
  <2>5. ASSUME Fits(s, slice), NEW j \in 1..s.len
        PROVE  UrlAt(s, j)' = UrlAt(s, j)
    <3>1. ~ (s.array = t.array /\ j = t.len)
      BY <1>1, <2>1, <2>5 DEF Fits
    <3>2. arrays'[s.array][j] = arrays[s.array][j]
      BY <2>1, <2>2, <3>1
    <3> QED
      BY <2>4, <3>2
  <2> QED
    BY <2>4, <2>5
<1>7. ListTypes'
  <2>1. Header(slice)' /\ slice' = slice
    BY <1>1, <1>6
  <2> QED
    BY <1>1, <1>5, <2>1 DEF ListTypes
<1>8. /\ \A i \in 1..slice.len : UrlAt(t, i)' = UrlAt(slice, i)
      /\ UrlAt(t, t.len)' = u
      /\ Header(t)'
  <2>1. \A i \in 1..slice.len : arrays[slice.array][i] \in 1..made
    BY <1>1 DEF Header
  <2>2. \A i \in 1..slice.len : UrlAt(t, i)' = UrlAt(slice, i)
    BY <1>5, <2>1 DEF UrlAt
  <2>3. UrlAt(t, t.len)' = u
    BY <1>5 DEF UrlAt
  <2>4. made + 1 \in 1..made' /\ \A k \in 1..made : k \in 1..made'
    BY <1>4, <1>5
  <2>5. \A i \in 1..t.len : i = t.len \/ i \in 1..slice.len
    BY <1>1
  <2>6. \A i \in 1..t.len : arrays'[t.array][i] \in 1..made'
    BY <2>1, <2>4, <2>5
  <2>7. t.len \in 0..Len(arrays'[t.array])
    <3>1. Len(arrays'[t.array]) \in Nat
      OBVIOUS
    <3> QED
      BY <1>1, <3>1
  <2> QED
    BY <2>2, <2>3, <2>6, <2>7 DEF Header
<1>9. RequestTypes'
  <2>1. /\ reqPc' \in [Requests -> {"idle", "add", "remove", "store"}]
        /\ reqSlice' \in [Requests -> Headers]
        /\ UNCHANGED <<reqUrl, ops>>
    BY <1>1 DEF RequestTypes
  <2>2. \A q \in Requests :
           ops # 0 /\ reqPc'[q] \in {"idle", "store"}
             /\ (reqPc'[q] = "store" => Header(reqSlice[q])')
    <3>1. ops # 0
      BY <1>1 DEF RequestTypes
    <3> QED
      BY <1>2, <1>8, <3>1 DEF Header
  <2> QED
    BY <1>1, <2>1, <2>2 DEF RequestTypes
<1>10. MessageTypes'
  <2>1. \A m \in Messages : Header(range[m])'
    <3> SUFFICES ASSUME NEW m \in Messages PROVE Header(range[m])'
      OBVIOUS
    <3>1. range[m] \in Headers /\ Header(range[m]) /\ range' = range
      BY <1>1 DEF MessageTypes, goVars
    <3> QED
      BY <1>6, <3>1 DEF Header
  <2> QED
    BY <1>1, <2>1 DEF MessageTypes, goVars, history
<1>11. ListInv'
  <2>1. Exactly(slice, set) /\ slice.len + 1 = t.len /\ \A i \in 1..slice.len : UrlAt(slice, i) # u
    BY <1>3 DEF u
  <2>2. \A i \in 1..t.len : i = t.len \/ i \in 1..slice.len
    BY <1>1
  <2> DEFINE at(i) == UrlAt(t, i)'
  <2>3. /\ \A i \in 1..slice.len : at(i) \in set /\ at(i) # u
        /\ \A i, j \in 1..slice.len : at(i) = at(j) => i = j
        /\ at(t.len) = u
    <3>1. /\ \A i \in 1..slice.len : UrlAt(slice, i) \in set
          /\ \A i, j \in 1..slice.len : UrlAt(slice, i) = UrlAt(slice, j) => i = j
      BY <2>1 DEF Exactly, Distinct
    <3> QED
      BY <1>8, <2>1, <3>1
  <2> HIDE DEF at
  <2>4. /\ \A i, j \in 1..t.len : at(i) = at(j) => i = j
        /\ \A i \in 1..t.len : at(i) \in database
    <3>1. \A i \in 1..t.len : at(i) \in database
      BY <1>3, <2>2, <2>3
    <3>2. \A i, j \in 1..t.len : at(i) = at(j) => i = j
      BY <2>2, <2>3
    <3> QED
      BY <3>1, <3>2
  <2>5. \A v \in database : \E i \in 1..t.len : UrlAt(t, i)' = v
    <3>1. t.len \in 1..t.len /\ \A i \in 1..slice.len : i \in 1..t.len
      BY <1>1
    <3> QED
      BY <1>3, <1>8, <2>1, <3>1 DEF Exactly
  <2>6. Exactly(t, database)'
    <3>1. database' = database
      OBVIOUS
    <3> QED
      BY <2>4, <2>5, <3>1 DEF Exactly, Distinct, at
  <2>7. Distinct(slice)'
    <3>1. Fits(slice, slice)
      BY <1>1 DEF Fits
    <3>2. slice' = slice /\ \A i \in 1..slice.len : UrlAt(slice, i)' = UrlAt(slice, i)
      BY <1>1, <1>6, <3>1
    <3> QED
      BY <2>1, <3>2 DEF Distinct, Exactly
  <2>8. Exactly(reqSlice[r], database)'
    <3>1. reqSlice'[r] = t
      BY <1>2
    <3> QED
      BY <2>6, <3>1
  <2> QED
    BY <1>2, <2>7, <2>8 DEF ListInv
<1>12. MessageInv'
  <2> DEFINE busy == {m \in Messages : pc[m] \in {"next", "sending"} /\ InLoop(m)}
  <2>1. \A m \in busy : m \in Messages /\ InLoop(m)
    OBVIOUS
  <2>2. \A m \in Messages \ disturbed : pc[m] \in {"next", "sending"} => m \in busy
    BY DEF Inv, MessageInv, OnTrack
  <2> HIDE DEF busy
  <2>3. ASSUME NEW m \in busy
        PROVE  /\ \A i \in 1..range[m].len :
                    urls'[arrays'[range[m].array][i]] = UrlAt(range[m], i)
               /\ Fits(range[m], slice') /\ Fits(range[m], t)
    <3>1. range[m] \in Headers /\ Header(range[m]) /\ Fits(range[m], slice)
      BY <1>1, <2>1, <2>3 DEF MessageTypes, InLoop
    <3>2. \A i \in 1..range[m].len : UrlAt(range[m], i)' = UrlAt(range[m], i)
      <4>1. \A s \in Headers : Header(s) /\ Fits(s, slice) =>
               \A i \in 1..s.len : urls'[arrays'[s.array][i]] = UrlAt(s, i)
        BY <1>6 DEF UrlAt
      <4> QED
        BY <3>1, <4>1 DEF UrlAt, goVars
    <3>3. range' = range /\ slice' = slice
      BY DEF goVars
    <3>4. Fits(range[m], t)
      BY <1>1, <3>1 DEF Fits, Header, Headers
    <3> QED
      BY <3>1, <3>2, <3>3, <3>4 DEF UrlAt
  <2>4. /\ UNCHANGED <<pc, range, index, delivered, stable, disturbed>>
        /\ busy \subseteq Messages
    BY <2>1 DEF goVars, history
  <2>5. \A m \in busy : \A q \in Requests :
           reqPc'[q] = "store" => Fits(range[m], reqSlice'[q])
    BY <1>2, <2>3
  <2> HIDE <1>0
  <2>6. /\ \A m \in Messages : stable'[m] \subseteq stable[m]
        /\ disturbed \subseteq disturbed'
        /\ \A m \in Messages \ disturbed' : pc[m] \in {"next", "sending"} => m \in busy
    BY <2>2, <2>4
  <2> QED
    BY <2>3, <2>4, <2>5, <2>6, MessagesStay
<1> HIDE <1>0
<1> QED
  BY <1>7, <1>9, <1>10, <1>11, <1>12 DEF Inv

\* A dispatching takes the place of the one of its url: no cell changes its url.
LEMMA ReplacedKeepsInv ==
    ASSUME Inv, OneAtATime, NEW r \in Requests, reqPc[r] = "add",
           NEW i \in 1..slice.len, UrlAt(slice, i) = reqUrl[r],
           arrays' \in Seq(Seq(Nat)), DOMAIN arrays' = DOMAIN arrays,
           \A b \in DOMAIN arrays :
                /\ Len(arrays'[b]) = Len(arrays[b])
                /\ \A j \in 1..Len(arrays[b]) :
                    arrays'[b][j] = IF b = slice.array /\ j = i
                                    THEN made + 1 ELSE arrays[b][j],
           urls' = Append(urls, reqUrl[r]),
           reqPc' = [reqPc EXCEPT ![r] = "idle"],
           UNCHANGED <<slice, database, goVars, reqUrl, reqSlice, ops, history>>
    PROVE  Inv'
<1> DEFINE u == reqUrl[r]
           a == slice.array
<1>1. /\ ListTypes /\ RequestTypes /\ MessageTypes /\ ListInv
      /\ slice \in Headers /\ Header(slice) /\ u \in Urls
      /\ a \in DOMAIN arrays /\ slice.len \in 0..Len(arrays[a])
  BY DEF Inv, ListTypes, RequestTypes, Header
<1>2. \A q \in Requests : reqPc'[q] = "idle"
  BY OnlyOne
<1>3. PICK set \in SUBSET Urls : Exactly(slice, set) /\ database = set \cup {u}
  BY <1>1 DEF ListInv
<1>5. /\ arrays' \in Seq(Seq(Nat)) /\ DOMAIN arrays' = DOMAIN arrays
      /\ \A b \in DOMAIN arrays :
           /\ Len(arrays'[b]) = Len(arrays[b])
           /\ \A j \in 1..Len(arrays[b]) :
                arrays'[b][j] = IF b = a /\ j = i THEN made + 1 ELSE arrays[b][j]
  OBVIOUS
<1> HIDE DEF u, a
<1>6. urls' = Append(urls, u) /\ urls' \in Seq(Urls)
  <2>1. urls \in Seq(Urls) /\ u \in Urls /\ urls' = Append(urls, u)
    BY <1>1 DEF ListTypes, u
  <2> QED
    BY <2>1
<1>7. ASSUME NEW s \in Headers, Header(s)
      PROVE  Header(s)' /\ \A j \in 1..s.len : UrlAt(s, j)' = UrlAt(s, j)
  <2>1. /\ s.array \in DOMAIN arrays /\ s.len \in 0..Len(arrays[s.array])
        /\ arrays[s.array] \in Seq(Nat) /\ Len(arrays'[s.array]) = Len(arrays[s.array])
    <3>1. s.array \in DOMAIN arrays /\ s.len \in 0..Len(arrays[s.array])
      BY <1>7 DEF Header
    <3>2. arrays[s.array] \in Seq(Nat)
      BY <1>1, <3>1 DEF ListTypes
    <3>3. Len(arrays'[s.array]) = Len(arrays[s.array])
      BY <1>5, <3>1, Zenon
    <3> QED
      BY <3>1, <3>2, <3>3
  <2>2. \A j \in 1..s.len : j \in 1..Len(arrays[s.array])
    BY <2>1
  <2>3. \A j \in 1..s.len :
           arrays'[s.array][j] =
               IF s.array = a /\ j = i THEN made + 1 ELSE arrays[s.array][j]
    BY <1>5, <2>1, <2>2
  <2>4. /\ Header(s)'
        /\ \A j \in 1..s.len :
             UrlAt(s, j)' = IF arrays'[s.array][j] = arrays[s.array][j]
                            THEN UrlAt(s, j) ELSE u
    <3>1. \A j \in 1..s.len : arrays'[s.array][j] \in {arrays[s.array][j], made + 1}
      BY <2>3
    <3> QED
      BY <1>1, <1>5, <1>6, <1>7, <2>1, <3>1, HeaderStays
  <2>5. \A j \in 1..s.len : s.array = a /\ j = i => UrlAt(s, j) = u
    BY DEF UrlAt, a, u
  <2>6. \A j \in 1..s.len : UrlAt(s, j)' = UrlAt(s, j)
    BY <2>3, <2>4, <2>5
  <2> QED
    BY <2>4, <2>6
<1>8. Header(slice)' /\ slice' = slice
        /\ \A j \in 1..slice.len : UrlAt(slice, j)' = UrlAt(slice, j)
  BY <1>1, <1>7
<1>9. ListTypes'
  BY <1>1, <1>5, <1>6, <1>8 DEF ListTypes
<1>10. RequestTypes'
  <2>1. reqPc' \in [Requests -> {"idle", "add", "remove", "store"}]
    BY <1>1 DEF RequestTypes
  <2>2. \A q \in Requests : reqPc'[q] = "idle"
    BY <1>2
  <2> QED
    BY <1>1, <2>1, <2>2 DEF RequestTypes
<1>11. MessageTypes'
  <2>1. \A m \in Messages : Header(range[m])'
    <3> SUFFICES ASSUME NEW m \in Messages PROVE Header(range[m])'
      OBVIOUS
    <3>1. range[m] \in Headers /\ Header(range[m]) /\ range' = range
      BY <1>1 DEF MessageTypes, goVars
    <3> QED
      BY <1>7, <3>1 DEF Header
  <2> QED
    BY <1>1, <2>1 DEF MessageTypes, goVars, history
<1>12. ListInv'
  <2>1. set = database /\ database' = database
    <3>1. u \in set
      BY <1>3 DEF Exactly, u
    <3> QED
      BY <1>3, <3>1
  <2>2. Distinct(slice)'
    <3>1. \A j, k \in 1..slice.len : UrlAt(slice, j) = UrlAt(slice, k) => j = k
      BY <1>3 DEF Exactly, Distinct
    <3> QED
      BY <1>8, <3>1 DEF Distinct
  <2>3. Exactly(slice, database)'
    <3>1. /\ \A j \in 1..slice.len : UrlAt(slice, j) \in database
          /\ \A v \in database : \E j \in 1..slice.len : UrlAt(slice, j) = v
      BY <1>3, <2>1 DEF Exactly
    <3>2. /\ \A j \in 1..slice'.len : UrlAt(slice, j)' \in database'
          /\ \A v \in database' : \E j \in 1..slice'.len : UrlAt(slice, j)' = v
      BY <1>8, <2>1, <3>1
    <3> QED
      BY <2>2, <3>2 DEF Exactly
  <2> QED
    BY <1>2, <2>3 DEF ListInv
<1>13. MessageInv'
  <2>1. \A m \in Messages : \A j \in 1..range[m].len :
           urls'[arrays'[range[m].array][j]] = UrlAt(range[m], j)
    <3>1. \A s \in Headers : Header(s) =>
             \A j \in 1..s.len : urls'[arrays'[s.array][j]] = UrlAt(s, j)
      BY <1>7 DEF UrlAt
    <3>2. \A m \in Messages : range[m] \in Headers /\ Header(range[m])
      BY <1>1 DEF MessageTypes
    <3> QED
      BY <3>1, <3>2
  <2>2. \A m \in Messages : InLoop(m) => Fits(range[m], slice')
    BY <1>8 DEF InLoop
  <2>3. \A q \in Requests : reqPc'[q] # "store"
    BY <1>2
  <2>4. UNCHANGED <<pc, range, index, delivered, stable, disturbed>>
    BY DEF goVars, history
  <2>5. /\ Inv /\ Messages \subseteq Messages /\ disturbed \subseteq disturbed'
        /\ \A m \in Messages : stable'[m] \subseteq stable[m]
        /\ \A m \in Messages \ disturbed' : pc[m] \in {"next", "sending"} => m \in Messages
    BY <2>4
  <2>6. \A m \in Messages \ disturbed' : InLoop(m) =>
           /\ Fits(range[m], slice')
           /\ \A q \in Requests : reqPc'[q] = "store" => Fits(range[m], reqSlice'[q])
    BY <2>2, <2>3
  <2> QED
    BY <2>1, <2>4, <2>5, <2>6, MessagesStay
<1> QED
  BY <1>9, <1>10, <1>11, <1>12, <1>13 DEF Inv

\* What an Add does, by cases: a cell is replaced, appended in the room of the
\* array, or in a larger copy.
LEMMA AddIs ==
    ASSUME Inv, NEW r \in Requests, Add(r)
    PROVE  /\ reqPc[r] = "add" /\ urls' = Append(urls, reqUrl[r])
           /\ UNCHANGED <<slice, database, goVars, reqUrl, ops, history>>
           /\ \/ /\ \E i \in 1..slice.len :
                      /\ UrlAt(slice, i) = reqUrl[r]
                      /\ arrays' = [arrays EXCEPT ![slice.array][i] = made + 1]
                 /\ reqPc' = [reqPc EXCEPT ![r] = "idle"] /\ reqSlice' = reqSlice
              \/ /\ \A i \in 1..slice.len : UrlAt(slice, i) # reqUrl[r]
                 /\ reqPc' = [reqPc EXCEPT ![r] = "store"]
                 /\ \/ /\ slice.len + 1 <= Len(arrays[slice.array])
                       /\ arrays' = [arrays EXCEPT ![slice.array][slice.len + 1] = made + 1]
                       /\ reqSlice' = [reqSlice EXCEPT ![r] =
                                        [slice EXCEPT !.len = slice.len + 1]]
                    \/ /\ arrays' = Append(arrays,
                            Grown(Append(Cells(slice), made + 1), slice.len + 1))
                       /\ reqSlice' = [reqSlice EXCEPT ![r] =
                            [array |-> Len(arrays) + 1, len |-> slice.len + 1]]
<1> DEFINE same == {i \in 1..slice.len : urls[Cells(slice)[i]] = reqUrl[r]}
           first == CHOOSE j \in same : \A k \in same : j <= k
<1>1. /\ ListTypes /\ ListInv /\ Header(slice) /\ slice \in Headers
      /\ reqPc[r] = "add" /\ urls' = Append(urls, reqUrl[r])
      /\ UNCHANGED <<slice, database, goVars, reqUrl, ops, history>>
  BY DEF Add, Inv, ListTypes
<1>2. \A i \in 1..slice.len : urls[Cells(slice)[i]] = UrlAt(slice, i)
  BY <1>1, ListedIs DEF UrlAt
<1>3. same = {i \in 1..slice.len : UrlAt(slice, i) = reqUrl[r]}
  BY <1>2
<1>4. CASE same # {}
  <2>1. Distinct(slice)
    BY <1>1 DEF ListInv, Exactly
  <2>2. PICK i \in 1..slice.len : i \in same
    BY <1>4
  <2>3. \A k \in same : k = i
    BY <1>3, <2>1, <2>2 DEF Distinct
  <2>4. i \in same /\ \A k \in same : i <= k
    BY <2>2, <2>3
  <2>5. first \in same
    BY <2>4
  <2>6. /\ arrays' = [arrays EXCEPT ![slice.array][first] = made + 1]
        /\ reqPc' = [reqPc EXCEPT ![r] = "idle"] /\ reqSlice' = reqSlice
    BY <1>4 DEF Add
  <2> HIDE DEF first
  <2>7. first \in 1..slice.len /\ UrlAt(slice, first) = reqUrl[r]
    BY <1>3, <2>5
  <2> HIDE DEF same
  <2> QED
    BY <1>1, <2>6, <2>7
<1>5. CASE same = {}
  <2>1. \A i \in 1..slice.len : UrlAt(slice, i) # reqUrl[r]
    BY <1>3, <1>5
  <2>2. /\ reqPc' = [reqPc EXCEPT ![r] = "store"]
        /\ \/ /\ slice.len + 1 <= Len(arrays[slice.array])
              /\ arrays' = [arrays EXCEPT ![slice.array][slice.len + 1] = made + 1]
              /\ reqSlice' = [reqSlice EXCEPT ![r] =
                               [slice EXCEPT !.len = slice.len + 1]]
           \/ /\ arrays' = Append(arrays,
                   Grown(Append(Cells(slice), made + 1), slice.len + 1))
              /\ reqSlice' = [reqSlice EXCEPT ![r] =
                   [array |-> Len(arrays) + 1, len |-> slice.len + 1]]
    BY <1>5 DEF Add, Assign
  <2> HIDE DEF same
  <2> QED
    BY <1>1, <2>1, <2>2
<1> QED
  BY <1>4, <1>5

\* Before an append the list has room within the bound of Capacity.
LEMMA RoomForOne ==
    ASSUME Inv, NEW r \in Requests, reqPc[r] = "add"
    PROVE  slice.len + 1 \in 0..(Cardinality(Urls) + MaxOps)
<1>1. ListTypes /\ slice \in Headers /\ Header(slice) /\ slice.len \in Nat
  BY DEF Inv, ListTypes, Headers
<1>2. PICK set \in SUBSET Urls : Exactly(slice, set)
  BY DEF Inv, ListInv
<1>3. slice.len <= Cardinality(Urls)
  BY <1>1, <1>2, LengthOf
<1>4. ops \in 0..MaxOps /\ ops # 0
  BY DEF Inv, RequestTypes
<1> QED
  BY <1>1, <1>3, <1>4, SizeOfUrls

\* The larger copy, in a new array.
LEMMA Copying ==
    ASSUME Inv, NEW r \in Requests, reqPc[r] = "add",
           NEW n, n = slice.len + 1,
           arrays' = Append(arrays, Grown(Append(Cells(slice), made + 1), n))
    PROVE  /\ arrays' \in Seq(Seq(Nat)) /\ DOMAIN arrays \subseteq DOMAIN arrays'
           /\ \A a \in DOMAIN arrays : arrays'[a] = arrays[a]
           /\ Len(arrays) + 1 \in DOMAIN arrays' /\ Len(arrays) + 1 \notin DOMAIN arrays
           /\ n <= Len(arrays'[Len(arrays) + 1])
           /\ \A i \in 1..slice.len :
                arrays'[Len(arrays) + 1][i] = arrays[slice.array][i]
           /\ arrays'[Len(arrays) + 1][n] = made + 1
<1> DEFINE cells == Append(Cells(slice), made + 1)
           new == Grown(cells, n)
<1>1. /\ ListTypes /\ arrays \in Seq(Seq(Nat)) /\ slice \in Headers /\ Header(slice)
      /\ slice.len \in Nat /\ made + 1 \in Nat
  BY DEF Inv, ListTypes, Headers, made
<1>2. Cells(slice) \in Seq(Nat) /\ Len(Cells(slice)) = slice.len
  <2> DEFINE all == arrays[slice.array]
             l == slice.len
  <2>1. all \in Seq(Nat) /\ l \in 0..Len(all)
    BY <1>1 DEF Header
  <2> HIDE DEF all, l
  <2>2. SubSeq(all, 1, l) \in Seq(Nat) /\ Len(SubSeq(all, 1, l)) = l
    BY <2>1
  <2> QED
    BY <2>2 DEF Cells, all, l
<1>3. /\ cells \in Seq(Nat) /\ Len(cells) = n /\ cells[n] = made + 1
      /\ \A i \in 1..slice.len : cells[i] = arrays[slice.array][i]
  <2>1. \A i \in 1..slice.len : Cells(slice)[i] = arrays[slice.array][i]
    BY <1>1, ListedIs
  <2>2. /\ cells \in Seq(Nat) /\ Len(cells) = n /\ cells[n] = made + 1
        /\ \A i \in 1..slice.len : cells[i] = Cells(slice)[i]
    BY <1>1, <1>2, AppendProperties
  <2> QED
    BY <2>1, <2>2
<1> HIDE DEF cells
<1>4. n \in 0..(Cardinality(Urls) + MaxOps) /\ n \in 1..n
           /\ \A i \in 1..slice.len : i \in 1..n
  <2>1. n \in 0..(Cardinality(Urls) + MaxOps)
    BY RoomForOne
  <2>2. n = slice.len + 1 /\ slice.len \in Nat
    BY <1>1
  <2> HIDE DEF new
  <2> QED
    BY <2>1, <2>2
<1>5. /\ new \in Seq(Nat) /\ n <= Len(new)
      /\ \A i \in 1..n : new[i] = cells[i]
  <2>1. cells \in Seq(Nat) /\ Len(cells) = n /\ Len(cells) <= n
    BY <1>1, <1>3
  <2>2. /\ Grown(cells, n) \in Seq(Nat) /\ n <= Len(Grown(cells, n))
        /\ \A i \in 1..Len(cells) : Grown(cells, n)[i] = cells[i]
    BY <1>4, <2>1, Growing
  <2> QED
    BY <2>1, <2>2
<1>6. arrays' = Append(arrays, new)
  BY DEF cells
<1> HIDE DEF new
<1>7. /\ arrays' \in Seq(Seq(Nat)) /\ Len(arrays') = Len(arrays) + 1
      /\ \A a \in 1..Len(arrays) : arrays'[a] = arrays[a]
      /\ arrays'[Len(arrays) + 1] = new
  <2> DEFINE Arrays == Seq(Nat)
  <2>1. arrays \in Seq(Arrays) /\ new \in Arrays
    BY <1>1, <1>5
  <2> HIDE DEF Arrays
  <2>2. /\ Append(arrays, new) \in Seq(Arrays)
        /\ Len(Append(arrays, new)) = Len(arrays) + 1
        /\ \A a \in 1..Len(arrays) : Append(arrays, new)[a] = arrays[a]
        /\ Append(arrays, new)[Len(arrays) + 1] = new
    BY <2>1, AppendProperties
  <2> QED
    BY <1>6, <2>2 DEF Arrays
<1>8. DOMAIN arrays = 1..Len(arrays) /\ DOMAIN arrays' = 1..(Len(arrays) + 1)
        /\ Len(arrays) \in Nat
  BY <1>1, <1>7
<1> DEFINE b == Len(arrays) + 1
<1>9. /\ DOMAIN arrays \subseteq DOMAIN arrays' /\ b \in DOMAIN arrays' /\ b \notin DOMAIN arrays
      /\ \A a \in DOMAIN arrays : arrays'[a] = arrays[a]
      /\ arrays'[b] = new
  BY <1>7, <1>8
<1> HIDE DEF b
<1>10. \A i \in 1..slice.len : arrays'[b][i] = arrays[slice.array][i]
  BY <1>3, <1>4, <1>5, <1>9
<1>11. n <= Len(arrays'[b]) /\ arrays'[b][n] = made + 1
  BY <1>3, <1>4, <1>5, <1>9
<1> QED
  BY <1>7, <1>9, <1>10, <1>11 DEF b

LEMMA AddKeepsInv ==
    ASSUME Inv, OneAtATime, NEW r \in Requests, Add(r)
    PROVE  Inv'
<1>1. /\ ListTypes /\ Header(slice) /\ slice \in Headers
      /\ slice.len \in Nat /\ slice.array \in Nat /\ made + 1 \in Nat
      /\ arrays \in Seq(Seq(Nat)) /\ slice.array \in DOMAIN arrays
      /\ slice.len \in 0..Len(arrays[slice.array])
      /\ \A a \in DOMAIN arrays : arrays[a] \in Seq(Nat) /\ Len(arrays[a]) \in Nat
  BY DEF Inv, ListTypes, Headers, Header, made
<1>2. /\ reqPc[r] = "add" /\ urls' = Append(urls, reqUrl[r])
      /\ UNCHANGED <<slice, database, goVars, reqUrl, ops, history>>
  BY AddIs
<1>3. ASSUME NEW i \in 1..slice.len, UrlAt(slice, i) = reqUrl[r],
             arrays' = [arrays EXCEPT ![slice.array][i] = made + 1],
             reqPc' = [reqPc EXCEPT ![r] = "idle"], reqSlice' = reqSlice
      PROVE  Inv'
  <2> DEFINE new == [arrays[slice.array] EXCEPT ![i] = made + 1]
             o == made + 1
  <2>1. i \in 1..Len(arrays[slice.array]) /\ arrays' = [arrays EXCEPT ![slice.array] = new]
    BY <1>1, <1>3
  <2>3. /\ ListTypes /\ arrays \in Seq(Seq(Nat)) /\ slice.array \in DOMAIN arrays
        /\ o \in Nat
        /\ arrays' = [arrays EXCEPT ![slice.array] = [arrays[slice.array] EXCEPT ![i] = o]]
    BY <1>1, <2>1
  <2>2. /\ arrays' \in Seq(Seq(Nat)) /\ DOMAIN arrays' = DOMAIN arrays
        /\ \A b \in DOMAIN arrays :
             /\ Len(arrays'[b]) = Len(arrays[b])
             /\ \A j \in 1..Len(arrays[b]) :
                  arrays'[b][j] = IF b = slice.array /\ j = i
                                  THEN made + 1 ELSE arrays[b][j]
    <3> HIDE DEF o
    <3>1. /\ arrays' \in Seq(Seq(Nat)) /\ DOMAIN arrays' = DOMAIN arrays
          /\ \A b \in DOMAIN arrays :
               /\ Len(arrays'[b]) = Len(arrays[b])
               /\ \A j \in 1..Len(arrays[b]) :
                    arrays'[b][j] = IF b = slice.array /\ j = i
                                    THEN o ELSE arrays[b][j]
      BY <2>1, <2>3, Writing, SMTT(30)
    <3> QED
      BY <3>1 DEF o
  <2> QED
    BY <1>2, <1>3, <2>2, ReplacedKeepsInv
<1>4. ASSUME \A i \in 1..slice.len : UrlAt(slice, i) # reqUrl[r],
             slice.len + 1 <= Len(arrays[slice.array]),
             arrays' = [arrays EXCEPT ![slice.array][slice.len + 1] = made + 1],
             reqPc' = [reqPc EXCEPT ![r] = "store"],
             reqSlice' = [reqSlice EXCEPT ![r] = [slice EXCEPT !.len = slice.len + 1]]
      PROVE  Inv'
  <2> DEFINE n == slice.len + 1
             new == [arrays[slice.array] EXCEPT ![n] = made + 1]
             t == [slice EXCEPT !.len = n]
  <2>1. n \in 1..Len(arrays[slice.array]) /\ arrays' = [arrays EXCEPT ![slice.array] = new]
    BY <1>1, <1>4
  <2>2. /\ arrays' \in Seq(Seq(Nat)) /\ DOMAIN arrays' = DOMAIN arrays
        /\ \A b \in DOMAIN arrays :
             /\ Len(arrays'[b]) = Len(arrays[b])
             /\ \A j \in 1..Len(arrays[b]) :
                  arrays'[b][j] = IF b = slice.array /\ j = n
                                  THEN made + 1 ELSE arrays[b][j]
    <3>1. PICK k \in 1..Len(arrays[slice.array]) : k = n
      BY <2>1
    <3> HIDE DEF n
    <3> DEFINE o == made + 1
    <3>2. /\ arrays' = [arrays EXCEPT ![slice.array] = [arrays[slice.array] EXCEPT ![k] = o]]
          /\ ListTypes /\ arrays \in Seq(Seq(Nat)) /\ slice.array \in DOMAIN arrays
          /\ o \in Nat
      BY <1>1, <2>1, <3>1
    <3> HIDE DEF o
    <3>3. /\ arrays' \in Seq(Seq(Nat)) /\ DOMAIN arrays' = DOMAIN arrays
          /\ \A b \in DOMAIN arrays :
               /\ Len(arrays'[b]) = Len(arrays[b])
               /\ \A j \in 1..Len(arrays[b]) :
                    arrays'[b][j] = IF b = slice.array /\ j = k
                                    THEN o ELSE arrays[b][j]
      BY <2>1, <3>1, <3>2, Writing
    <3> QED
      BY <3>1, <3>3 DEF o
  <2>3. t \in Headers /\ t.array = slice.array /\ t.len = slice.len + 1
    <3>1. n \in Nat /\ n = slice.len + 1
      BY <1>1
    <3>2. slice \in [array : Nat, len : Nat]
      BY <1>1 DEF Headers
    <3> HIDE DEF n
    <3>3. t \in [array : Nat, len : Nat] /\ t.array = slice.array /\ t.len = n
      BY <3>1, <3>2
    <3> QED
      BY <3>1, <3>3 DEF Headers
  <2>4. \A i \in 1..slice.len : i \in 1..Len(arrays[slice.array]) /\ i # n
    BY <1>1
  <2>5. reqSlice' = [reqSlice EXCEPT ![r] = t] /\ t.len = n
    BY <1>4, <2>3
  <2> HIDE DEF n, new, t
  <2>6. /\ \A i \in 1..slice.len : arrays'[t.array][i] = arrays[slice.array][i]
        /\ arrays'[t.array][t.len] = made + 1
        /\ t.array \in DOMAIN arrays' /\ t.len <= Len(arrays'[t.array])
    <3> DEFINE b == slice.array
    <3>1. /\ b \in DOMAIN arrays /\ t.array = b /\ t.len = n /\ DOMAIN arrays' = DOMAIN arrays
          /\ n \in 1..Len(arrays[b]) /\ Len(arrays[b]) \in Nat
          /\ \A i \in 1..slice.len : i \in 1..Len(arrays[b]) /\ i # n
      BY <1>1, <2>1, <2>2, <2>3, <2>4, <2>5
    <3>2. /\ Len(arrays'[b]) = Len(arrays[b])
          /\ \A j \in 1..Len(arrays[b]) :
               arrays'[b][j] = IF j = n THEN made + 1 ELSE arrays[b][j]
      BY <2>2, <3>1
    <3> HIDE DEF b
    <3>3. t.len <= Len(arrays'[b])
      BY <3>1, <3>2
    <3>4. arrays'[b][t.len] = made + 1
      BY <3>1, <3>2
    <3>5. \A i \in 1..slice.len : arrays'[b][i] = arrays[b][i]
      BY <3>1, <3>2
    <3> QED
      BY <3>1, <3>3, <3>4, <3>5 DEF b
  <2>7. \A a \in DOMAIN arrays :
           /\ Len(arrays'[a]) = Len(arrays[a])
           /\ \A j \in 1..Len(arrays[a]) :
                \/ arrays'[a][j] = arrays[a][j]
                \/ a = t.array /\ j = t.len /\ arrays'[a][j] = made + 1
    BY <2>2, <2>3, <2>5
  <2>8. Appends(r, t)
    BY <1>2, <1>4, <2>2, <2>3, <2>5, <2>6, <2>7 DEF Appends
  <2> QED
    BY <2>3, <2>8, AppendedKeepsInv
<1>5. ASSUME \A i \in 1..slice.len : UrlAt(slice, i) # reqUrl[r],
             arrays' = Append(arrays,
                Grown(Append(Cells(slice), made + 1), slice.len + 1)),
             reqPc' = [reqPc EXCEPT ![r] = "store"],
             reqSlice' = [reqSlice EXCEPT ![r] =
                [array |-> Len(arrays) + 1, len |-> slice.len + 1]]
      PROVE  Inv'
  <2> DEFINE n == slice.len + 1
             a == Len(arrays) + 1
             t == [array |-> a, len |-> n]
  <2>1. /\ arrays' \in Seq(Seq(Nat)) /\ DOMAIN arrays \subseteq DOMAIN arrays'
        /\ \A b \in DOMAIN arrays : arrays'[b] = arrays[b]
        /\ a \in DOMAIN arrays' /\ a \notin DOMAIN arrays
        /\ n <= Len(arrays'[a])
        /\ \A i \in 1..slice.len : arrays'[a][i] = arrays[slice.array][i]
        /\ arrays'[a][n] = made + 1
    BY <1>2, <1>5, Copying
  <2>2. t \in Headers /\ t.array = a /\ t.len = n /\ t.len = slice.len + 1
    BY <1>1 DEF Headers
  <2>3. reqSlice' = [reqSlice EXCEPT ![r] = t]
    BY <1>5
  <2> HIDE DEF n, a, t
  <2>4. \A b \in DOMAIN arrays : /\ Len(arrays'[b]) = Len(arrays[b])
                                 /\ \A j \in 1..Len(arrays[b]) : arrays'[b][j] = arrays[b][j]
    BY <2>1
  <2>5. Appends(r, t)
    BY <1>2, <1>5, <2>1, <2>2, <2>3, <2>4 DEF Appends
  <2> QED
    BY <2>2, <2>5, AppendedKeepsInv
<1> QED
  BY AddIs, <1>3, <1>4, <1>5

\* What a Remove does: the cells that stay move to the front, in the new header.
LEMMA RemoveIs ==
    ASSUME Inv, NEW r \in Requests, Remove(r)
    PROVE  /\ reqPc[r] = "remove" /\ reqPc' = [reqPc EXCEPT ![r] = "store"]
           /\ UNCHANGED <<slice, urls, database, goVars, reqUrl, ops>>
           /\ stable' = [m \in Messages |-> stable[m] \ {reqUrl[r]}]
           /\ disturbed' = disturbed \cup {m \in Messages : pc[m] \in {"next", "sending"}}
           /\ \E stay \in SUBSET (1..slice.len) :
                /\ stay = {i \in 1..slice.len : UrlAt(slice, i) # reqUrl[r]}
                /\ arrays' = [arrays EXCEPT ![slice.array] =
                                Compacted(arrays[slice.array], stay)]
                /\ reqSlice' = [reqSlice EXCEPT ![r] =
                                  [slice EXCEPT !.len = Cardinality(stay)]]
<1>1. ListTypes /\ slice \in Headers /\ Header(slice)
  BY DEF Inv, ListTypes
<1>2. \A i \in 1..slice.len : urls[Cells(slice)[i]] = UrlAt(slice, i)
  BY <1>1, ListedIs DEF UrlAt
<1>3. /\ Staying(r) = {i \in 1..slice.len : UrlAt(slice, i) # reqUrl[r]}
      /\ Staying(r) \in SUBSET (1..slice.len)
  BY <1>2 DEF Staying
<1>4. /\ arrays' = [arrays EXCEPT ![slice.array] =
                      Compacted(arrays[slice.array], Staying(r))]
      /\ reqSlice' = [reqSlice EXCEPT ![r] =
                        [slice EXCEPT !.len = Cardinality(Staying(r))]]
  BY DEF Remove, Assign
<1>5. /\ reqPc[r] = "remove" /\ reqPc' = [reqPc EXCEPT ![r] = "store"]
      /\ UNCHANGED <<slice, urls, database, goVars, reqUrl, ops>>
      /\ stable' = [m \in Messages |-> stable[m] \ {reqUrl[r]}]
      /\ disturbed' = disturbed \cup {m \in Messages : pc[m] \in {"next", "sending"}}
  BY DEF Remove, Assign
<1> QED
  BY <1>3, <1>4, <1>5

LEMMA RemoveKeepsInv ==
    ASSUME Inv, OneAtATime, NEW r \in Requests, Remove(r)
    PROVE  Inv'
<1> DEFINE u == reqUrl[r]
           a == slice.array
           n == slice.len
<1>1. /\ ListTypes /\ RequestTypes /\ MessageTypes /\ ListInv
      /\ slice \in Headers /\ Header(slice) /\ a \in DOMAIN arrays /\ a \in Nat
      /\ arrays[a] \in Seq(Nat) /\ n \in 0..Len(arrays[a]) /\ n \in Nat
      /\ \A i \in 1..n : arrays[a][i] \in 1..made
  BY DEF Inv, ListTypes, Headers, Header
<1>2. /\ reqPc[r] = "remove" /\ reqPc' = [reqPc EXCEPT ![r] = "store"]
      /\ UNCHANGED <<slice, urls, database, goVars, reqUrl, ops>>
      /\ stable' = [m \in Messages |-> stable[m] \ {u}]
      /\ disturbed' = disturbed \cup {m \in Messages : pc[m] \in {"next", "sending"}}
  BY RemoveIs
<1>3. PICK stay \in SUBSET (1..n) :
        /\ stay = {i \in 1..n : UrlAt(slice, i) # u}
        /\ arrays' = [arrays EXCEPT ![a] = Compacted(arrays[a], stay)]
        /\ reqSlice' = [reqSlice EXCEPT ![r] = [slice EXCEPT !.len = Cardinality(stay)]]
  BY RemoveIs
<1>4. PICK set \in SUBSET Urls : Exactly(slice, set) /\ database = set \ {u}
  BY <1>1, <1>2 DEF ListInv
<1> DEFINE c == Cardinality(stay)
           new == Compacted(arrays[a], stay)
<1>5. /\ c \in 0..n /\ new \in Seq(Nat) /\ Len(new) = Len(arrays[a])
      /\ \E from \in Bijection(1..c, stay) :
            \A j \in 1..c : new[j] = arrays[a][from[j]]
      /\ \A j \in 1..Len(arrays[a]) : j > c => new[j] = arrays[a][j]
      /\ c = n => new = arrays[a]
  BY <1>1, Compacting
<1>6. PICK from \in Bijection(1..c, stay) : \A j \in 1..c : new[j] = arrays[a][from[j]]
  BY <1>5
<1>7. /\ from \in [1..c -> stay] /\ \A j, k \in 1..c : from[j] = from[k] => j = k
      /\ \A i \in stay : \E j \in 1..c : from[j] = i
  BY <1>6 DEF Bijection, Injection, Surjection, IsInjective
<1>0. PICK t : t = [slice EXCEPT !.len = c]
  OBVIOUS
<1>8. (\A q \in Requests : q # r => reqPc'[q] = "idle")
      /\ reqPc'[r] = "store" /\ reqSlice'[r] = t
      /\ t \in Headers /\ t.array = a /\ t.len = c /\ c \in Nat /\ c <= n
  <2>1. c \in Nat /\ c <= n
    BY <1>1, <1>5
  <2>2. t \in Headers /\ t.array = a /\ t.len = c
    <3>1. slice \in [array : Nat, len : Nat]
      BY <1>1 DEF Headers
    <3> HIDE DEF c
    <3> QED
      BY <1>0, <2>1, <3>1 DEF Headers
  <2>3. reqSlice'[r] = t
    BY <1>0, <1>1, <1>3 DEF RequestTypes
  <2> QED
    BY <1>2, <2>1, <2>2, <2>3, OnlyOne
<1> HIDE DEF u, a, n, c, new
<1>9. /\ arrays' \in Seq(Seq(Nat)) /\ DOMAIN arrays' = DOMAIN arrays
      /\ \A b \in DOMAIN arrays : arrays'[b] = IF b = a THEN new ELSE arrays[b]
  <2> DEFINE Arrays == Seq(Nat)
             w == [arrays EXCEPT ![a] = new]
  <2>1. new \in Arrays /\ arrays \in Seq(Arrays) /\ a \in 1..Len(arrays)
          /\ DOMAIN arrays = 1..Len(arrays)
    BY <1>1, <1>5, SMTT(30) DEF ListTypes
  <2> HIDE DEF Arrays
  <2>2. /\ w \in Seq(Arrays) /\ Len(w) = Len(arrays)
        /\ \A b \in 1..Len(arrays) : w[b] = IF b = a THEN new ELSE arrays[b]
    BY <2>1, ExceptSeq
  <2>3. arrays' = w
    BY <1>3 DEF new
  <2>4. DOMAIN w = 1..Len(arrays)
    BY <2>2
  <2> QED
    BY <2>1, <2>2, <2>3, <2>4 DEF Arrays
<1>10. \A j \in 1..Len(arrays[a]) : new[j] # arrays[a][j] => new[j] \in 1..made
  <2> SUFFICES ASSUME NEW j \in 1..Len(arrays[a]), new[j] # arrays[a][j]
               PROVE  new[j] \in 1..made
    OBVIOUS
  <2>1. j \in 1..c
    BY <1>5, <1>8
  <2>2. from[j] \in 1..n /\ new[j] = arrays[a][from[j]]
    BY <1>6, <1>7, <2>1
  <2> QED
    BY <1>1, <2>2 DEF a, n
<1>11. ASSUME NEW s \in Headers, Header(s)
       PROVE  Header(s)'
  <2>1. /\ s.array \in DOMAIN arrays /\ s.len \in 0..Len(arrays[s.array])
        /\ arrays[s.array] \in Seq(Nat) /\ made' = made
        /\ \A j \in 1..s.len : arrays[s.array][j] \in 1..made
    BY <1>1, <1>2, <1>11 DEF Header, ListTypes, made
  <2>2. \A j \in 1..s.len : j \in 1..Len(arrays[s.array])
    BY <2>1
  <2>3. CASE s.array = a
    <3>1. arrays'[s.array] = new /\ Len(new) = Len(arrays[s.array])
      BY <1>5, <1>9, <2>1, <2>3
    <3>2. \A j \in 1..s.len : new[j] \in 1..made
      BY <1>10, <2>1, <2>2, <2>3
    <3> QED
      BY <1>9, <2>1, <3>1, <3>2 DEF Header
  <2>4. CASE s.array # a
    <3>1. arrays'[s.array] = arrays[s.array]
      BY <1>9, <2>1, <2>4
    <3> QED
      BY <1>9, <2>1, <3>1 DEF Header
  <2> QED
    BY <2>3, <2>4
<1>12. ListTypes'
  <2>1. Header(slice)'
    <3>1. slice' = slice
      BY <1>2
    <3> QED
      BY <1>1, <1>11, <3>1 DEF Header
  <2> QED
    BY <1>1, <1>2, <1>9, <2>1 DEF ListTypes
<1>13. RequestTypes'
  <2>1. Header(t)'
    <3>1. Header(slice)' /\ slice' = slice /\ slice.array = a /\ slice.len = n
      BY <1>2, <1>12 DEF ListTypes, a, n
    <3>2. /\ a \in DOMAIN arrays' /\ n \in 0..Len(arrays'[a])
          /\ \A i \in 1..n : arrays'[a][i] \in 1..made'
      BY <3>1 DEF Header
    <3>3. Len(arrays'[a]) \in Nat
      BY <1>1, <1>5, <1>9
    <3>4. c \in 0..Len(arrays'[a]) /\ \A i \in 1..c : i \in 1..n
      BY <1>8, <3>2, <3>3
    <3> QED
      BY <1>8, <3>2, <3>4 DEF Header
  <2>2. /\ reqPc' \in [Requests -> {"idle", "add", "remove", "store"}]
        /\ reqUrl' = reqUrl /\ ops' = ops
    BY <1>1, <1>2 DEF RequestTypes
  <2>3. reqSlice' \in [Requests -> Headers]
    <3>1. reqSlice' = [reqSlice EXCEPT ![r] = t]
      BY <1>0, <1>3 DEF c
    <3> QED
      BY <1>1, <1>8, <3>1 DEF RequestTypes
  <2>4. \A q \in Requests :
           ops # 0 /\ reqPc'[q] \in {"idle", "store"}
             /\ (reqPc'[q] = "store" => Header(reqSlice[q])')
    <3>1. ops # 0
      BY <1>1, <1>2 DEF RequestTypes
    <3>2. Header(reqSlice[r])'
      BY <1>8, <2>1 DEF Header
    <3> QED
      BY <1>8, <3>1, <3>2
  <2> QED
    BY <1>1, <2>2, <2>3, <2>4 DEF RequestTypes
<1>14. MessageTypes'
  <2>1. \A m \in Messages : Header(range[m])'
    <3> SUFFICES ASSUME NEW m \in Messages PROVE Header(range[m])'
      OBVIOUS
    <3>1. range[m] \in Headers /\ Header(range[m]) /\ range' = range
      BY <1>1, <1>2 DEF MessageTypes, goVars
    <3> QED
      BY <1>11, <3>1 DEF Header
  <2>2. stable' \in [Messages -> SUBSET Urls]
    BY <1>1, <1>2 DEF MessageTypes
  <2> QED
    BY <1>1, <1>2, <2>1, <2>2 DEF MessageTypes, goVars
<1>15. ListInv'
  <2> DEFINE at(j) == UrlAt(t, j)'
             old(i) == UrlAt(slice, i)
  <2>1. \A j \in 1..c : from[j] \in stay /\ at(j) = old(from[j])
    <3>1. arrays'[a] = new /\ urls' = urls
      BY <1>1, <1>2, <1>9
    <3>2. \A j \in 1..c : at(j) = urls[new[j]]
      BY <1>8, <3>1 DEF UrlAt
    <3>3. \A j \in 1..c : old(from[j]) = urls[arrays[a][from[j]]]
      BY DEF UrlAt, a
    <3> QED
      BY <1>6, <1>7, <3>2, <3>3
  <2>2. /\ \A i \in 1..n : old(i) \in set
        /\ \A i, k \in 1..n : old(i) = old(k) => i = k
        /\ \A v \in set : \E i \in 1..n : old(i) = v
    BY <1>4 DEF Exactly, Distinct, n
  <2> HIDE DEF at
  <2>3. stay = {i \in 1..n : old(i) # u}
    BY <1>3 DEF u, n
  <2> HIDE DEF old
  <2>4. \A j \in 1..c : at(j) \in database
    BY <1>4, <2>1, <2>2, <2>3
  <2>5. \A j, k \in 1..c : at(j) = at(k) => j = k
    BY <1>7, <2>1, <2>2, <2>3
  <2>6. \A v \in database : \E j \in 1..c : at(j) = v
    <3> SUFFICES ASSUME NEW v \in database PROVE \E j \in 1..c : at(j) = v
      OBVIOUS
    <3>1. PICK i \in 1..n : old(i) = v
      BY <1>4, <2>2
    <3>2. i \in stay
      BY <1>4, <2>3, <3>1
    <3>3. PICK j \in 1..c : from[j] = i
      BY <1>7, <3>2
    <3> QED
      BY <2>1, <3>1, <3>3
  <2>7. Exactly(t, database)'
    <3>1. database' = database /\ t.len = c
      BY <1>2, <1>8
    <3> QED
      BY <2>4, <2>5, <2>6, <3>1 DEF Exactly, Distinct, at
  <2>8. Exactly(reqSlice[r], database)'
    <3>1. reqSlice'[r] = t
      BY <1>8
    <3> QED
      BY <2>7, <3>1
  <2>9. ASSUME slice'.len <= reqSlice'[r].len PROVE Distinct(slice)'
    <3>1. c = n
      BY <1>1, <1>2, <1>8, <2>9 DEF n
    <3>2. arrays'[a] = arrays[a] /\ urls' = urls /\ slice' = slice
      BY <1>1, <1>2, <1>5, <1>9, <3>1
    <3>3. Distinct(slice)
      BY <1>4 DEF Exactly
    <3> QED
      BY <3>2, <3>3 DEF Distinct, UrlAt, a
  <2> QED
    BY <1>8, <2>8, <2>9 DEF ListInv
<1>16. MessageInv'
  <2>1. \A m \in Messages \ disturbed' : pc[m] \notin {"next", "sending"}
    BY <1>2
  <2>2. \A m \in Messages : stable'[m] \subseteq stable[m]
    BY <1>2
  <2>3. UNCHANGED <<pc, range, index, delivered>> /\ disturbed \subseteq disturbed'
    BY <1>2 DEF goVars
  <2>4. {} \subseteq Messages
    OBVIOUS
  <2> QED
    BY <2>1, <2>2, <2>3, <2>4, MessagesStay
<1> QED
  BY <1>12, <1>13, <1>14, <1>15, <1>16 DEF Inv

LEMMA StoreKeepsInv ==
    ASSUME Inv, OneAtATime, NEW r \in Requests, Store(r)
    PROVE  Inv'
<1>1. /\ reqPc[r] = "store" /\ slice' = reqSlice[r]
      /\ reqPc' = [reqPc EXCEPT ![r] = "idle"]
      /\ UNCHANGED <<arrays, urls, database, goVars, reqUrl, reqSlice, ops, history>>
  BY DEF Store
<1>2. /\ ListTypes /\ RequestTypes /\ MessageTypes /\ ListInv
      /\ reqSlice[r] \in Headers /\ Header(reqSlice[r]) /\ Exactly(reqSlice[r], database)
  BY <1>1 DEF Inv, RequestTypes, ListInv
<1>3. \A q \in Requests : reqPc'[q] = "idle"
  BY <1>1, OnlyOne
<1>4. ListTypes'
  <2>1. Header(slice)'
    BY <1>1, <1>2 DEF Header, made
  <2> QED
    BY <1>1, <1>2, <2>1 DEF ListTypes
<1>5. RequestTypes'
  <2>1. reqPc' \in [Requests -> {"idle", "add", "remove", "store"}]
    BY <1>1, <1>2 DEF RequestTypes
  <2>2. \A q \in Requests : reqPc'[q] = "idle"
    BY <1>3
  <2> QED
    BY <1>1, <1>2, <2>1, <2>2 DEF RequestTypes
<1>6. MessageTypes'
  BY <1>1, <1>2 DEF MessageTypes, Header, goVars, history, made
<1>7. ListInv'
  <2>1. Exactly(slice, database)'
    BY <1>1, <1>2 DEF Exactly, Distinct, UrlAt
  <2> QED
    BY <1>3, <2>1 DEF ListInv
<1>8. MessageInv'
  <2>1. \A q \in Requests : reqPc'[q] # "store"
    BY <1>3
  <2>2. \A m \in Messages : \A i \in 1..range[m].len :
           urls'[arrays'[range[m].array][i]] = UrlAt(range[m], i)
    BY <1>1 DEF UrlAt
  <2>3. \A m \in Messages : InLoop(m) => Fits(range[m], slice')
    BY <1>1 DEF InLoop
  <2>4. UNCHANGED <<pc, range, index, delivered, stable, disturbed>>
    BY <1>1 DEF goVars, history
  <2> QED
    BY <2>1, <2>2, <2>3, <2>4, MessagesStay
<1> QED
  BY <1>4, <1>5, <1>6, <1>7, <1>8 DEF Inv

LEMMA StutterKeepsInv == Inv /\ UNCHANGED vars => Inv'
<1> SUFFICES ASSUME Inv, UNCHANGED vars PROVE Inv'
  OBVIOUS
<1>1. ListTypes' /\ RequestTypes' /\ ListInv'
  BY ListStays DEF vars
<1>2. MessageTypes'
  BY DEF Inv, MessageTypes, Header, vars, listVars, goVars, history, made
<1>3. MessageInv'
  <2>1. \A m \in Messages : \A i \in 1..range[m].len :
           urls'[arrays'[range[m].array][i]] = UrlAt(range[m], i)
    BY DEF vars, listVars, UrlAt
  <2>2. UNCHANGED <<pc, range, index, delivered, stable, disturbed>>
    BY DEF vars, goVars, history
  <2>3. \A m \in Messages : InLoop(m) =>
           /\ Fits(range[m], slice')
           /\ \A r \in Requests : reqPc'[r] = "store" => Fits(range[m], reqSlice'[r])
    BY DEF vars, listVars, reqVars, InLoop
  <2> QED
    BY <2>1, <2>2, <2>3, MessagesStay
<1> QED
  BY <1>1, <1>2, <1>3 DEF Inv

\* While one request at most changes the list, its steps keep it so, until one
\* begins beside it.
LEMMA StepKeepsOne ==
    ASSUME Inv, OneAtATime, [Next]_vars, ~clashed'
    PROVE  OneAtATime' /\ ~clashed
<1>0. reqPc \in [Requests -> {"idle", "add", "remove", "store"}]
  BY DEF Inv, RequestTypes
<1>1. ASSUME NEW m \in Messages, Trigger(m) \/ Serving(m)
      PROVE  OneAtATime' /\ ~clashed
  <2>1. UNCHANGED <<reqPc, clashed>>
    <3>1. CASE Trigger(m)
      BY <3>1 DEF Trigger, reqVars, history
    <3>2. CASE BeginRange(m)
      BY <3>2 DEF BeginRange, reqVars
    <3>3. CASE Serve(m) \/ Served(m)
      BY <3>3 DEF Serve, Served, reqVars, history
    <3>4. CASE Answer(m)
      BY <3>4 DEF Answer, reqVars, history
    <3> QED
      BY <1>1, <3>1, <3>2, <3>3, <3>4 DEF Serving
  <2> QED
    BY <2>1 DEF OneAtATime
<1>2. ASSUME NEW r \in Requests, Begin(r) PROVE OneAtATime' /\ ~clashed
  <2>1. ~clashed /\ \A q \in Requests : reqPc[q] = "idle"
    BY <1>2 DEF Begin
  <2>2. \A q \in Requests : q # r => reqPc'[q] = "idle"
    BY <1>0, <1>2, <2>1 DEF Begin
  <2> QED
    BY <2>1, <2>2 DEF OneAtATime
<1>3. ASSUME NEW r \in Requests, Add(r) \/ Remove(r) \/ Store(r)
      PROVE  OneAtATime' /\ ~clashed
  <2>1. clashed' = clashed
    BY <1>3 DEF Add, Remove, Store, history
  <2>2. /\ reqPc[r] # "idle"
        /\ \E p \in {"idle", "store"} : reqPc' = [reqPc EXCEPT ![r] = p]
    BY <1>3 DEF Add, Remove, Store, Assign
  <2>3. \A q \in Requests : q # r => reqPc'[q] = "idle"
    BY <2>2, OnlyOne
  <2> QED
    BY <2>1, <2>3 DEF OneAtATime
<1>4. CASE UNCHANGED vars
  BY <1>4 DEF vars, reqVars, history, OneAtATime
<1> QED
  BY <1>1, <1>2, <1>3, <1>4 DEF Next, Finished

LEMMA StepKeepsInv ==
    ASSUME Inv, OneAtATime, [Next]_vars, ~clashed'
    PROVE  Inv'
<1>1. ASSUME NEW m \in Messages, Trigger(m) \/ Serving(m) PROVE Inv'
  BY <1>1, TriggerKeepsInv, BeginRangeKeepsInv, ServeKeepsInv, ServedKeepsInv DEF Serving
<1>2. ASSUME NEW r \in Requests, Begin(r) \/ Add(r) \/ Remove(r) \/ Store(r) PROVE Inv'
  BY <1>2, BeginKeepsInv, AddKeepsInv, RemoveKeepsInv, StoreKeepsInv
<1>3. CASE UNCHANGED vars
  BY <1>3, StutterKeepsInv
<1> QED
  BY <1>1, <1>2, <1>3 DEF Next, Finished

\* once two requests have clashed nothing is promised
SafeInv == clashed \/ (Inv /\ OneAtATime)

LEMMA SafeInvHolds == Spec => []SafeInv
<1>1. Init => SafeInv
  <2>1. Init => reqPc = [r \in Requests |-> "idle"]
    BY DEF Init
  <2>2. Init => OneAtATime
    BY <2>1 DEF OneAtATime
  <2> QED
    BY <2>2, InitInv DEF SafeInv
<1>2. SafeInv /\ [Next]_vars => SafeInv'
  <2> SUFFICES ASSUME SafeInv, [Next]_vars, ~clashed' PROVE Inv' /\ OneAtATime'
    BY DEF SafeInv
  <2>1. ~clashed
    BY DEF Next, Finished, Serving, Trigger, BeginRange, Serve, Served, Answer, Begin,
       Add, Remove, Store, vars, history
  <2> QED
    BY <2>1, StepKeepsInv, StepKeepsOne DEF SafeInv
<1> QED
  BY <1>1, <1>2, PTL DEF Spec

-----------------------------------------------------------------------------
(* The theorems *)

\* What a request leaves in source.Dispatching is the table, each url once,
\* whatever an append found in the array: the room that it had, the cells that
\* a removal left behind, or none (DispatchingAddOrUpdate and
\* DispatchingRemove, qp_data_dispatching.go); of any number of requests, until
\* one begins while another has not stored its header.
THEOREM MemoryIsTheTable == Spec => []MemoryIsDatabase
<1>1. SafeInv => MemoryIsDatabase
  BY InvImpliesMemory DEF SafeInv, MemoryIsDatabase
<1> QED
  BY <1>1, SafeInvHolds, PTL

\* However the list grows and is replaced in place while a message is served,
\* and whatever the dispatchings answer, a url that stays in the list receives
\* the message once if its options accept it; only a removal during the loop
\* can change that, or two requests that change the list at a time
\* (PostToDispatchingFromServer, qp_whatsapp_server_extensions.go).
THEOREM ServedOnceUnlessRemoved == Spec => []OnceUnlessRemoved
<1>1. SafeInv => OnceUnlessRemoved
  BY InvImpliesOnce DEF SafeInv, OnceUnlessRemoved
<1> QED
  BY <1>1, SafeInvHolds, PTL
=============================================================================
