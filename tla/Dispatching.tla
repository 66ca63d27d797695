----------------------------- MODULE Dispatching -----------------------------
(***************************************************************************)
(* Handing the messages of one bot to its dispatchings, webhooks and       *)
(* RabbitMQ queues (PostToDispatchingFromServer in                         *)
(* src/src/models/qp_whatsapp_server_extensions.go, PostWebhook and        *)
(* PublishRabbitMQ in qp_dispatching.go), while requests change the list   *)
(* (qp_data_dispatching.go).  Every message is served by a goroutine that  *)
(* ranges over the slice of dispatchings without a lock, so the slice is   *)
(* modelled as Go keeps it: a header over an array that may be shared.     *)
(* Inside of RabbitMQ a message goes on in RabbitMQClient.                 *)
(***************************************************************************)
EXTENDS Naturals, Sequences, FiniteSets

CONSTANTS
    Messages,       \* records with kind, from, internal and track
    Urls,           \* connection strings
    Type,           \* of each url: webhook or rabbitmq
    Silent,         \* the urls that never answer
    Refuses,        \* the kinds and origins that are switched off for a url
    Forwards,       \* the urls with ForwardInternal
    TrackId,        \* of each url, "" for none
    DispatchUnhandled,
    Requests,       \* processes that change the list
    Ops,            \* what they do, add or remove; nothing calls clear
    MaxOps,         \* bound: changes of the list
    Capacity        \* of each length, the room that append makes for it

ASSUME DispatchingAssumption ==
    /\ Type \in [Urls -> {"webhook", "rabbitmq"}]
    /\ Forwards \subseteq Urls /\ Silent \subseteq Urls
    /\ DispatchUnhandled \in BOOLEAN
    /\ Ops \subseteq {"add", "remove"} /\ MaxOps \in Nat
    /\ IsFiniteSet(Urls)
    /\ Capacity \in [0..(Cardinality(Urls) + MaxOps) -> Nat]
    /\ \A n \in DOMAIN Capacity : n <= Capacity[n]

VARIABLES
    arrays,         \* the arrays made, each a sequence of dispatchings
    slice,          \* source.Dispatching: an array and a length
    database,       \* the urls in the table
    urls,           \* the url of each dispatching made, in order
    failure,        \* Failure: none, first or a later failure since a success
    success,        \* Success is set
    pc, range, index, current,      \* per message: its goroutine
    exceptions,     \* per message: it has exceptions
    reqPc, reqUrl, reqSlice,        \* per request
    ops,
    delivered,      \* history: how often a message was sent to a url
    stable,         \* history: the urls in the list since its goroutine began
    disturbed,      \* history: messages served while a removal moved cells
    clashed         \* history: two requests changed the list at a time

listVars == <<arrays, slice, urls>>
markVars == <<failure, success, exceptions>>
goVars == <<pc, range, index, current, delivered>>
reqVars == <<reqPc, reqUrl, reqSlice, ops>>
history == <<stable, disturbed, clashed>>
vars == <<listVars, database, markVars, goVars, reqVars, history>>

Objects == 1..(Cardinality(Urls) + MaxOps)
made == Len(urls)
Cells(s) == SubSeq(arrays[s.array], 1, s.len)
Listed(s) == {urls[Cells(s)[i]] : i \in 1..s.len}

TypeOK ==
    /\ \A a \in 1..Len(arrays) : arrays[a] \in Seq(0..made)
    /\ slice.array \in 1..Len(arrays)
    /\ slice.len \in 0..Len(arrays[slice.array])
    /\ \A i \in 1..slice.len : Cells(slice)[i] # 0
    /\ database \subseteq Urls /\ urls \in Seq(Urls) /\ made \in 0..Cardinality(Objects)
    /\ failure \in [Objects -> {"none", "first", "later"}]
    /\ success \in [Objects -> BOOLEAN]
    /\ pc \in [Messages -> {"idle", "queued", "next", "sending", "done"}]
    /\ index \in [Messages -> 0..Cardinality(Objects)]
    /\ current \in [Messages -> 0..made]
    /\ exceptions \in [Messages -> BOOLEAN]
    /\ reqPc \in [Requests -> {"idle", "add", "remove", "store"}]
    /\ ops \in 0..MaxOps

\* a new array of the cells of s with room for n
Grown(s, n) == [i \in 1..Capacity[n] |-> IF i <= Len(s) THEN s[i] ELSE 0]

\* DispatchingFill appends the rows of the database, in some order
Init ==
    /\ \E n \in 0..Cardinality(Urls) :
        urls \in {u \in [1..n -> Urls] : \A i, j \in 1..n : u[i] = u[j] => i = j}
    /\ arrays = <<Grown([i \in 1..Len(urls) |-> i], Len(urls))>>
    /\ slice = [array |-> 1, len |-> Len(urls)]
    /\ database = {urls[i] : i \in 1..Len(urls)}
    /\ failure = [o \in Objects |-> "none"]
    /\ success = [o \in Objects |-> FALSE]
    /\ pc = [m \in Messages |-> "idle"]
    /\ range = [m \in Messages |-> slice]
    /\ index = [m \in Messages |-> 0] /\ current = [m \in Messages |-> 0]
    /\ exceptions = [m \in Messages |-> FALSE]
    /\ reqPc = [r \in Requests |-> "idle"]
    /\ reqUrl = [r \in Requests |-> ""]
    /\ reqSlice = [r \in Requests |-> slice]
    /\ ops = 0
    /\ delivered = [m \in Messages |-> [u \in Urls |-> 0]]
    /\ stable = [m \in Messages |-> {}] /\ disturbed = {} /\ clashed = FALSE

-----------------------------------------------------------------------------
(* A message *)

\* the empty text that takes a reaction back is a kind of its own
IsValidForDispatch(m) ==
    DispatchUnhandled \/ m.kind \notin {"unhandled", "empty"}

\* the four options of a dispatching, and the loop a forward would make
Accepts(u, m) ==
    /\ m.kind \notin Refuses[u] /\ m.from \notin Refuses[u]
    /\ m.internal => u \in Forwards /\ (TrackId[u] = "" \/ TrackId[u] # m.track)

\* Trigger starts the goroutine of the handler
Trigger(m) ==
    /\ pc[m] = "idle" /\ IsValidForDispatch(m)
    /\ pc' = [pc EXCEPT ![m] = "queued"]
    /\ UNCHANGED <<listVars, database, markVars, range, index, current,
                   delivered, reqVars, history>>

\* HasDispatching, and the header that range takes
BeginRange(m) ==
    /\ pc[m] = "queued"
    /\ pc' = [pc EXCEPT ![m] = IF slice.len = 0 THEN "done" ELSE "next"]
    /\ range' = [range EXCEPT ![m] = slice]
    /\ stable' = [stable EXCEPT ![m] = Listed(slice)]
    /\ disturbed' = IF \E r \in Requests :
                           reqPc[r] = "store" /\ reqSlice[r].len < slice.len
                    THEN disturbed \cup {m} ELSE disturbed
    /\ UNCHANGED <<listVars, database, markVars, index, current, delivered,
                   reqVars, clashed>>

\* range reads a cell of the array when its turn comes
Serve(m) ==
    /\ pc[m] = "next" /\ index[m] < range[m].len
    /\ LET o == arrays[range[m].array][index[m] + 1]  u == urls[o] IN
        /\ index' = [index EXCEPT ![m] = @ + 1]
        /\ current' = [current EXCEPT ![m] = o]
        /\ IF Accepts(u, m)
           THEN /\ pc' = [pc EXCEPT ![m] = "sending"]
                /\ delivered' = [delivered EXCEPT ![m][u] = @ + 1]
           ELSE UNCHANGED <<pc, delivered>>
    /\ UNCHANGED <<listVars, database, markVars, range, reqVars, history>>

Served(m) ==
    /\ pc[m] = "next" /\ index[m] = range[m].len
    /\ pc' = [pc EXCEPT ![m] = "done"]
    /\ UNCHANGED <<listVars, database, markVars, range, index, current,
                   delivered, reqVars, history>>

\* status 200, or a publish after which the connection is ready
MarkSuccess(m, o) ==
    /\ failure' = [failure EXCEPT ![o] = "none"]
    /\ success' = [success EXCEPT ![o] = TRUE]
    /\ exceptions' = [exceptions EXCEPT ![m] = FALSE]

\* PublishRabbitMQ, whose message was kept for later, overwrites both marks
MarkFailure(m, o) ==
    /\ failure' = [failure EXCEPT ![o] =
            IF failure[o] = "none" THEN "first"
            ELSE IF Type[urls[o]] = "rabbitmq" THEN "later" ELSE @]
    /\ success' = [success EXCEPT ![o] = @ /\ Type[urls[o]] = "webhook"]
    /\ exceptions' = [exceptions EXCEPT ![m] = TRUE]

\* mutant: a dispatching that fails ends the loop
Answer_EndsOnError(m) ==
    /\ pc[m] = "sending"
    /\ \/ /\ urls[current[m]] \notin Silent /\ MarkSuccess(m, current[m])
          /\ pc' = [pc EXCEPT ![m] = "next"]
       \/ /\ MarkFailure(m, current[m])
          /\ pc' = [pc EXCEPT ![m] = "done"]
    /\ UNCHANGED <<listVars, database, range, index, current, delivered,
                   reqVars, history>>

Posts(m) == pc[m] = "sending" /\ Type[urls[current[m]]] = "webhook"
Publishes(m) == pc[m] = "sending" /\ Type[urls[current[m]]] = "rabbitmq"

\* mutant: no client.Timeout, the goroutine waits
Answer_NoTimeout(m) ==
    /\ pc[m] = "sending" /\ urls[current[m]] \notin Silent
    /\ MarkSuccess(m, current[m]) \/ MarkFailure(m, current[m])
    /\ pc' = [pc EXCEPT ![m] = "next"]
    /\ UNCHANGED <<listVars, database, range, index, current, delivered,
                   reqVars, history>>

\* the answer of a webhook or its timeout, or the end of a publish; what cannot
\* be encoded, or an address that is none, is not posted and leaves no mark.  An
\* error is logged and the next dispatching is served.  (A queue has a client:
\* there is none only for an empty connection string, which is not stored.)
Answer(m) ==
    /\ pc[m] = "sending"
    /\ \/ urls[current[m]] \notin Silent /\ MarkSuccess(m, current[m])
       \/ MarkFailure(m, current[m])
       \/ Posts(m) /\ UNCHANGED markVars
    /\ pc' = [pc EXCEPT ![m] = "next"]
    /\ UNCHANGED <<listVars, database, range, index, current, delivered,
                   reqVars, history>>

-----------------------------------------------------------------------------
(* A request *)

Begin(r) ==
    /\ reqPc[r] = "idle" /\ ops < MaxOps
    /\ ops' = ops + 1
    /\ \E u \in Urls, op \in Ops :
        /\ reqUrl' = [reqUrl EXCEPT ![r] = u]
        /\ reqPc' = [reqPc EXCEPT ![r] = op]
        /\ database' = IF op = "add" THEN database \cup {u} ELSE database \ {u}
    /\ clashed' = (clashed \/ \E q \in Requests : reqPc[q] # "idle")
    /\ UNCHANGED <<listVars, markVars, goVars, reqSlice, stable, disturbed>>

Assign(r, s) ==
    /\ reqSlice' = [reqSlice EXCEPT ![r] = s]
    /\ reqPc' = [reqPc EXCEPT ![r] = "store"]

\* the request brings a new dispatching: it replaces the one of its url, or it
\* is appended, in the room that the array has or in a larger copy
Add(r) ==
    LET o == made + 1
        same == {i \in 1..slice.len : urls[Cells(slice)[i]] = reqUrl[r]}
        n == slice.len + 1 IN
    /\ reqPc[r] = "add"
    /\ urls' = Append(urls, reqUrl[r])
    /\ IF same # {}
       THEN LET i == CHOOSE j \in same : \A k \in same : j <= k IN
            /\ arrays' = [arrays EXCEPT ![slice.array][i] = o]
            /\ reqPc' = [reqPc EXCEPT ![r] = "idle"]
            /\ UNCHANGED reqSlice
       ELSE IF n <= Len(arrays[slice.array])
       THEN /\ arrays' = [arrays EXCEPT ![slice.array][n] = o]
            /\ Assign(r, [slice EXCEPT !.len = n])
       ELSE /\ arrays' = Append(arrays, Grown(Append(Cells(slice), o), n))
            /\ Assign(r, [array |-> Len(arrays) + 1, len |-> n])
    /\ UNCHANGED <<slice, database, markVars, goVars, reqUrl, ops, history>>

\* the positions in the list of the dispatchings that stay
Staying(r) == {i \in 1..slice.len : urls[Cells(slice)[i]] # reqUrl[r]}

\* the array once the cells at these positions have moved to the front
Compacted(cells, stay) ==
    [j \in DOMAIN cells |->
        IF j <= Cardinality(stay)
        THEN cells[CHOOSE i \in stay : Cardinality(stay \cap (1..i)) = j]
        ELSE cells[j]]

\* mutant: the slice is not cut to [:i]
Remove_NotCut(r) ==
    /\ reqPc[r] = "remove"
    /\ arrays' = [arrays EXCEPT ![slice.array] = Compacted(@, Staying(r))]
    /\ Assign(r, slice)
    /\ stable' = [m \in Messages |-> stable[m] \ {reqUrl[r]}]
    /\ disturbed' = disturbed \cup {m \in Messages : pc[m] \in {"next", "sending"}}
    /\ UNCHANGED <<slice, urls, database, markVars, goVars, reqUrl, ops, clashed>>

\* those that stay move to the front of the same array; the client of a queue
\* is closed, in RabbitMQPool
Remove(r) ==
    /\ reqPc[r] = "remove"
    /\ arrays' = [arrays EXCEPT ![slice.array] = Compacted(@, Staying(r))]
    /\ Assign(r, [slice EXCEPT !.len = Cardinality(Staying(r))])
    /\ stable' = [m \in Messages |-> stable[m] \ {reqUrl[r]}]
    /\ disturbed' = disturbed \cup {m \in Messages : pc[m] \in {"next", "sending"}}
    /\ UNCHANGED <<slice, urls, database, markVars, goVars, reqUrl, ops, clashed>>

\* the header is assigned to source.Dispatching
Store(r) ==
    /\ reqPc[r] = "store"
    /\ slice' = reqSlice[r]
    /\ reqPc' = [reqPc EXCEPT ![r] = "idle"]
    /\ UNCHANGED <<arrays, urls, database, markVars, goVars, reqUrl, reqSlice,
                   ops, history>>

-----------------------------------------------------------------------------
Serving(m) == BeginRange(m) \/ Serve(m) \/ Served(m) \/ Answer(m)

Finished ==
    /\ ops = MaxOps /\ \A r \in Requests : reqPc[r] = "idle"
    /\ \A m \in Messages : pc[m] = "done" \/ (pc[m] = "idle" /\ ~IsValidForDispatch(m))
    /\ UNCHANGED vars

Next ==
    \/ \E m \in Messages : Trigger(m) \/ Serving(m)
    \/ \E r \in Requests : Begin(r) \/ Add(r) \/ Remove(r) \/ Store(r)
    \/ Finished

Spec == Init /\ [][Next]_vars

\* goroutines run, and the timeout of the webhook client ends a call that the
\* other side never answers.  Nothing is assumed of a publish: it asks for its
\* client first, and a Close that hangs keeps the lock of all clients
FairSpec ==
    /\ Spec
    /\ \A m \in Messages : WF_vars(Serving(m) /\ ~Publishes(m))

-----------------------------------------------------------------------------
(* Properties *)

\* a url that stayed in the list while a message was served has received it
\* once if its options accept it, and not otherwise, whatever the answers of
\* the urls before it in the list
ServedOnce(m) ==
    pc[m] = "done" =>
        \A u \in stable[m] : delivered[m][u] = IF Accepts(u, m) THEN 1 ELSE 0

\* PostToDispatchingFromServer is the "message deliver to individual
\* dispatching distribution" (qp_whatsapp_server_extensions.go:13)
DeliveredOnce == \A m \in Messages : ServedOnce(m)

\* only a removal at the time of the loop can make it skip a dispatching or
\* serve one twice: appending, growing and replacing in place cannot, nor can
\* a removal before the loop, whose stale cells an append fills later; until
\* two requests change the list at a time
OnceUnlessRemoved == clashed \/ \A m \in Messages \ disturbed : ServedOnce(m)

\* between requests the list in memory is the table, each url once, until two
\* of them have changed it at a time
MemoryIsDatabase ==
    ~clashed /\ (\A r \in Requests : reqPc[r] = "idle") =>
        /\ Listed(slice) = database
        /\ slice.len = Cardinality(database)

\* the same of any requests: DispatchingAddOrUpdate is to "Update memory cache"
\* (qp_data_dispatching.go:52) to what it has stored
MemoryIsAlwaysDatabase ==
    (\A r \in Requests : reqPc[r] = "idle") => Listed(slice) = database

\* a message taken for dispatching goes through the whole list, although a
\* webhook may never answer, unless it waits for good for the client of a queue
EveryMessageServed ==
    \A m \in Messages : pc[m] = "queued" ~> pc[m] = "done" \/ []Publishes(m)

\* Failure is the "first failure timestamp" (qp_dispatching.go:38)
FailureIsFirst == \A o \in Objects : failure[o] # "later"

\* Success is the "last success timestamp" (qp_dispatching.go:39): a failure
\* does not erase it
SuccessIsKept == [][\A o \in Objects : success[o] => success'[o]]_vars

\* HasExceptions "checks if the message has any dispatch errors"
\* (whatsapp_message.go:192): what goes well at one dispatching does not hide
\* what failed at another
ErrorsAreKept == [][\A m \in Messages : exceptions[m] => exceptions'[m]]_vars

=============================================================================
