------------------------------ MODULE RpcClient ------------------------------
(***************************************************************************)
(* The life of every unary call of the SDK: threads of one program share   *)
(* one RpcClient, each blocks inside a handler until its gRPC stub returns *)
(* and then writes the caller's result object.  All handlers have the same *)
(* shape:                                                                  *)
(*                                                                         *)
(*   build the request; context.set_deadline(now + timeout);               *)
(*   status = stub_->method(&context, request, &response);                 *)
(*   if (!status.ok())         { write failure to *result; return -1; }    *)
(*   if (response.code() != 0) { write failure to *result; return -1; }    *)
(*   write success to *result; return 0;                                   *)
(*                                                                         *)
(* Data is abstract: a message or a payload is the call that wrote it, so  *)
(* a result says from which answers its fields come.  The server is not in *)
(* the repository; it carries a request out once, refuses it, or loses it. *)
(***************************************************************************)
EXTENDS Naturals, Sequences

CONSTANTS
    Threads,      \* the program's threads that use the client
    Calls,        \* the calls they make, each used once (bounds the model)
    Operations,   \* the methods they call
    NoCall        \* a message no call has written: the empty string

AllOperations ==
    {"createDatabase", "listDatabases", "dropDatabase",
     "createCollection", "listCollections", "describeCollection",
     "truncateCollection", "dropCollection",
     "upsert", "query", "dele", "update", "search", "count", "rebuildIndex"}

ASSUME OperationsAssumption == Operations \subseteq AllOperations
ASSUME NoCallAssumption == NoCall \notin Calls

Reads == {"listDatabases", "listCollections", "describeCollection",
          "query", "search", "count"}

\* The methods the header declares with `result = nullptr`.
ResultIsOptional ==
    AllOperations \ {"createDatabase", "listDatabases", "dropDatabase",
                     "listCollections"}

VARIABLES
    consistency,  \* option_.readConsistency of the client
    status,       \* status[c]: what call c has told its caller
    request,      \* request[c]: what the handler put in the request
    net,          \* requests sent and neither carried out, refused nor lost
    log,          \* requests carried out, in the order of the server
    answer,       \* answer[c]: what the server answered
    observed,     \* observed[c]: how many requests of log the answer reflects
    results,      \* results[t][o]: the object thread t passes to method o
    crashed,      \* the process died in a handler
    before,       \* history: the calls acknowledged when c was made
    latest        \* history: the call that last returned through results[t][o]

vars == <<consistency, status, request, net, log, answer, observed,
          results, crashed, before, latest>>

wire == <<net, log, answer, observed>>

(***************************************************************************)
(* Type correctness.                                                       *)
(***************************************************************************)
Levels == {"eventualConsistency", "strongConsistency"}

Request == [thread: Threads, op: Operations, consistency: Levels \cup {""},
            hasResult: BOOLEAN]

NoRequest == [consistency |-> ""]

\* The data of a result: the calls whose answers its containers hold.
Result == [success: BOOLEAN, message: Calls \cup {NoCall}, data: Seq(Calls)]

\* Each structure, clients' option and call stays within its type.
TypeOK ==
    /\ consistency \in Levels
    /\ status \in [Calls -> {"unissued", "pending", "ok", "error"}]
    /\ request \in [Calls -> Request \cup {NoRequest}]
    /\ \A c \in Calls : status[c] # "unissued" => request[c] \in Request
    /\ net \in SUBSET Calls
    /\ log \in Seq(Calls)
    /\ answer \in [Calls -> {"none", "ok", "refused", "empty"}]
    /\ observed \in [Calls -> Nat]
    /\ results \in [Threads -> [Operations -> Result]]
    /\ crashed \in BOOLEAN
    /\ before \in [Calls -> SUBSET Calls]
    /\ latest \in [Threads -> [Operations -> Calls \cup {NoCall}]]

(***************************************************************************)
(* A newly declared result.  `bool success` has no initialiser in any      *)
(* result type, so its value is whatever the memory held.                  *)
(***************************************************************************)
NewResults == [success: BOOLEAN, message: {NoCall}, data: {<<>>}]

\* Every Invoke may declare its result anew, so one value of `success` is enough
\* here.
Init ==
    /\ consistency \in Levels
    /\ status = [c \in Calls |-> "unissued"]
    /\ request = [c \in Calls |-> NoRequest]
    /\ net = {}
    /\ log = <<>>
    /\ answer = [c \in Calls |-> "none"]
    /\ observed = [c \in Calls |-> 0]
    /\ results = [t \in Threads |-> [o \in Operations |->
                    [success |-> FALSE, message |-> NoCall, data |-> <<>>]]]
    /\ crashed = FALSE
    /\ before = [c \in Calls |-> {}]
    /\ latest = [t \in Threads |-> [o \in Operations |-> NoCall]]

Pending(t) == {c \in Calls : status[c] = "pending" /\ request[c].thread = t}

Acknowledged == {c \in Calls : status[c] = "ok"}

(***************************************************************************)
(* The first half of a handler.                                            *)
(***************************************************************************)

\* MUTANT: query forgets set_readconsistency.
QueryForgetsConsistency(o) == IF o = "search" THEN consistency ELSE ""

\* Only query and search copy option_.readConsistency into the request.
ReadConsistency(o) == IF o \in {"query", "search"} THEN consistency ELSE ""

\* Thread t calls method o: the handler builds the request, sets the deadline
\* and blocks in the stub.  The caller passes no result, the object it used
\* before, or a new one.
Invoke(t, c, o, hasResult) ==
    /\ ~crashed
    /\ Pending(t) = {}
    /\ status[c] = "unissued"
    /\ hasResult \/ o \in ResultIsOptional
    /\ status' = [status EXCEPT ![c] = "pending"]
    /\ request' = [request EXCEPT ![c] =
                     [thread |-> t, op |-> o, hasResult |-> hasResult,
                      consistency |-> ReadConsistency(o)]]
    /\ net' = net \cup {c}
    /\ before' = [before EXCEPT ![c] = Acknowledged]
    /\ \/ UNCHANGED <<results, latest>>
       \/ /\ hasResult
          /\ \E r \in NewResults :
                results' = [results EXCEPT ![t] = [@ EXCEPT ![o] = r]]
          /\ latest' = [latest EXCEPT ![t] = [@ EXCEPT ![o] = NoCall]]
    /\ UNCHANGED <<consistency, log, answer, observed, crashed>>

(***************************************************************************)
(* The server and the network.                                             *)
(***************************************************************************)
IsLogged(c) == \E i \in 1..Len(log) : log[i] = c

\* How much of the log an answer may reflect: a write works on all of it; a
\* read on all of it when the request asks for strong consistency, and on some
\* replica's prefix of it otherwise.
Visible(c) ==
    IF request[c].op \in Reads /\ request[c].consistency # "strongConsistency"
    THEN 0..Len(log) ELSE {Len(log)}

\* describeCollection may be answered with code 0 and no collection.
Answers(o) == IF o = "describeCollection" THEN {"ok", "empty"} ELSE {"ok"}

ServerExecutes(c) ==
    /\ c \in net
    /\ net' = net \ {c}
    /\ log' = Append(log, c)
    /\ \E a \in Answers(request[c].op) : answer' = [answer EXCEPT ![c] = a]
    /\ \E n \in Visible(c) : observed' = [observed EXCEPT ![c] = n]
    /\ UNCHANGED <<consistency, status, request, results, crashed, before, latest>>

ServerRefuses(c) ==
    /\ c \in net
    /\ net' = net \ {c}
    /\ answer' = [answer EXCEPT ![c] = "refused"]
    /\ UNCHANGED <<consistency, status, request, log, observed, results,
                   crashed, before, latest>>

RequestLost(c) ==
    /\ c \in net
    /\ net' = net \ {c}
    /\ UNCHANGED <<consistency, status, request, log, answer, observed,
                   results, crashed, before, latest>>

(***************************************************************************)
(* The second half of a handler: it writes the result and returns.  There  *)
(* is no test of the result pointer on any path: writing through a null    *)
(* one kills the process.                                                  *)
(***************************************************************************)
OutParam(c) == results[request[c].thread][request[c].op]

Return(c, code, written) ==
    LET t == request[c].thread
        o == request[c].op
    IN  /\ ~crashed
        /\ status[c] = "pending"
        /\ \/ /\ request[c].hasResult
              /\ status' = [status EXCEPT ![c] = code]
              /\ results' = [results EXCEPT ![t] = [@ EXCEPT ![o] = written]]
              /\ latest' = [latest EXCEPT ![t] = [@ EXCEPT ![o] = c]]
              /\ UNCHANGED crashed
           \/ /\ ~request[c].hasResult
              /\ crashed' = TRUE
              /\ UNCHANGED <<status, results, latest>>
        /\ UNCHANGED <<consistency, request, before, wire>>

\* MUTANT: a failing branch that leaves `success` as it was.
FailureKeepsSuccess(r, c) == [r EXCEPT !.message = c]

\* MUTANT: a failing branch that hands out the response all the same.
FailureWithData(r, c) == [r EXCEPT !.success = FALSE, !.message = c, !.data = <<c>>]

\* What every failing branch leaves in the result.
Failure(r, c) == [r EXCEPT !.success = FALSE, !.message = c]

\* MUTANT: the status of the stub is not looked at.
StatusIgnored(c) ==
    Return(c, "ok", [success |-> TRUE, message |-> c, data |-> <<c>>])

\* MUTANT: a handler that sends the request again and waits on.
StatusRetried(c) ==
    /\ ~crashed
    /\ status[c] = "pending"
    /\ c \notin net
    /\ net' = net \cup {c}
    /\ UNCHANGED <<consistency, status, request, log, answer, observed,
                   results, crashed, before, latest>>

\* MUTANT: no set_deadline: the stub gives up only when the connection does.
StatusWithoutDeadline(c) ==
    /\ c \notin net
    /\ Return(c, "error", Failure(OutParam(c), c))

\* !status.ok(): the deadline passed or the connection failed, whatever has
\* become of the request.
StatusError(c) == Return(c, "error", Failure(OutParam(c), c))

\* response.code() != 0
CodeError(c) == /\ answer[c] = "refused"
                /\ Return(c, "error", Failure(OutParam(c), c))

\* describeCollection: !response.has_collection()
NoCollection(c) == /\ answer[c] = "empty"
                   /\ Return(c, "error", Failure(OutParam(c), c))

\* The response of method o came with code 0; the handler leaves `written`.
Succeed(c, o, written) ==
    /\ answer[c] = "ok"
    /\ request[c].op = o
    /\ Return(c, "ok", written)

\* What the ten handlers write that set success, message and their data.
Success(r, c) == [r EXCEPT !.success = TRUE, !.message = c, !.data = <<c>>]

createDatabase(c) ==
    Succeed(c, "createDatabase",
            [OutParam(c) EXCEPT !.success = TRUE, !.data = <<c>>])

listDatabases(c) ==
    Succeed(c, "listDatabases",
            [OutParam(c) EXCEPT !.success = TRUE, !.data = <<c>>])

dropDatabase(c) ==
    Succeed(c, "dropDatabase",
            [OutParam(c) EXCEPT !.success = TRUE, !.data = <<c>>])

createCollection(c) == Succeed(c, "createCollection", Success(OutParam(c), c))

listCollections(c) == Succeed(c, "listCollections", Success(OutParam(c), c))

describeCollection(c) ==
    Succeed(c, "describeCollection", Success(OutParam(c), c))

truncateCollection(c) ==
    Succeed(c, "truncateCollection", Success(OutParam(c), c))

dropCollection(c) == Succeed(c, "dropCollection", Success(OutParam(c), c))

upsert(c) == Succeed(c, "upsert", Success(OutParam(c), c))

\* MUTANT: query pushes its documents behind those the object holds.
QueryAppends(c) ==
    Succeed(c, "query", [OutParam(c) EXCEPT !.data = Append(@, c)])

\* Neither success nor message is written.
query(c) == Succeed(c, "query", [OutParam(c) EXCEPT !.data = <<c>>])

dele(c) == Succeed(c, "dele", Success(OutParam(c), c))

update(c) == Succeed(c, "update", Success(OutParam(c), c))

\* The groups of the response are pushed behind those the object holds.
search(c) ==
    Succeed(c, "search",
            [OutParam(c) EXCEPT !.success = TRUE, !.message = c,
                                !.data = Append(@, c)])

count(c) == Succeed(c, "count", Success(OutParam(c), c))

\* MUTANT: the task ids are taken from a response no call filled.
RebuildOfNoResponse(c) ==
    Succeed(c, "rebuildIndex",
            [OutParam(c) EXCEPT !.success = TRUE, !.data = <<NoCall>>])

rebuildIndex(c) == Succeed(c, "rebuildIndex", Success(OutParam(c), c))

Handled(c) ==
    \/ createDatabase(c) \/ listDatabases(c) \/ dropDatabase(c)
    \/ createCollection(c) \/ listCollections(c) \/ describeCollection(c)
    \/ truncateCollection(c) \/ dropCollection(c)
    \/ upsert(c) \/ query(c) \/ dele(c) \/ update(c) \/ search(c) \/ count(c)
    \/ rebuildIndex(c)

Next ==
    \/ \E t \in Threads, c \in Calls, o \in Operations, h \in BOOLEAN :
            Invoke(t, c, o, h)
    \/ \E c \in Calls : \/ ServerExecutes(c)
                        \/ ServerRefuses(c)
                        \/ RequestLost(c)
                        \/ StatusError(c)
                        \/ CodeError(c)
                        \/ NoCollection(c)
                        \/ Handled(c)

Spec == Init /\ [][Next]_vars

(***************************************************************************)
(* Fairness.  Every handler calls context.set_deadline before it enters    *)
(* the stub, so a call the stub still holds is ended with                  *)
(* DEADLINE_EXCEEDED at the latest; neither the server nor the network     *)
(* owes anything.                                                          *)
(***************************************************************************)
FairSpec == Spec /\ \A c \in Calls : WF_vars(StatusError(c))

(***************************************************************************)
(* Properties.                                                             *)
(***************************************************************************)

\* Every call that returned 0 was carried out by the server, and no request
\* was carried out twice: no handler returns 0 on a call that failed, and none
\* sends its request again after an error or a deadline.
AcknowledgedOnce ==
    /\ \A c \in Acknowledged : IsLogged(c)
    /\ \A i, j \in 1..Len(log) : log[i] = log[j] => i = j

\* A call that was acknowledged before another one was made, by whichever
\* thread, comes before it in the server's order, even if the later one was
\* given up and carried out long after its handler returned -1.
RealTimeOrder ==
    \A i, j \in 1..Len(log) : log[i] \in before[log[j]] => i < j

\* With option_.readConsistency strong, a query or search that returned 0
\* reflects every write that was acknowledged, to any thread, before it began.
StrongReads ==
    (consistency = "strongConsistency") =>
        \A c \in Acknowledged : request[c].op \in {"query", "search"} =>
            \A w \in before[c] : \E i \in 1..observed[c] : log[i] = w

\* The containers of a result only ever hold answers of calls that returned 0
\* to their owner through that object: an answer that loses the race against
\* the deadline never reaches the result, and no answer reaches it twice.  The test
\* RebuildIndexEmptyParams (tests/rpc_index_test.cpp:24-31) expects otherwise of
\* rebuildIndex: -1, and task ids in a result that was new.  The code assigns taskIds
\* on its way out with 0 only, so no run of that test meets both expectations.
DataIsAcknowledged ==
    \A t \in Threads, o \in Operations :
        LET data == results[t][o].data IN
        /\ \A i \in 1..Len(data) :
              /\ status[data[i]] = "ok"
              /\ request[data[i]].thread = t
              /\ request[data[i]].op = o
        /\ \A i, j \in 1..Len(data) : data[i] = data[j] => i = j

\* Once a call has returned through a result, `success` agrees with the code
\* the call returned, the last answer held is that of the call if it returned
\* 0, and the message is its own if it returned -1.  Of the methods, query
\* leaves `success` alone.
TruthfulResult ==
    \A t \in Threads, o \in Operations :
        LET r == results[t][o]
            c == latest[t][o]
        IN  c # NoCall =>
              /\ o # "query" => (r.success <=> status[c] = "ok")
              /\ status[c] = "ok" => /\ r.data # <<>>
                                     /\ r.data[Len(r.data)] = c
              /\ status[c] = "error" => ~r.success /\ r.message = c

\* A method called with a result that was used before does not mix answers:
\* every method but search replaces what the object holds.
OneAnswerUnlessSearch ==
    \A t \in Threads, o \in Operations \ {"search"} :
        Len(results[t][o].data) <= 1

\* The calls implement RemoteCall: an effect at most once, never after the
\* acknowledgement, and no acknowledgement without the effect.
Remote == INSTANCE RemoteCall WITH outcome <- status, effects <- log
ImplementsRemoteCall == Remote!Spec

\* Whatever the server and the network do, a call comes back to its caller,
\* unless the process has died in another handler.
EveryCallReturns ==
    \A c \in Calls : (status[c] = "pending") ~> (status[c] # "pending" \/ crashed)

(***************************************************************************)
(* What the documentation says of a call and the code does not do.         *)
(***************************************************************************)

\* "@return: 0 means success": the code returned and the `success` of the
\* result agree for every method.
SuccessMatchesReturn ==
    \A t \in Threads, o \in Operations :
        LET c == latest[t][o] IN
        c # NoCall => (results[t][o].success <=> status[c] = "ok")

\* The groups of a search result correspond to the vectors given to that
\* search: the object holds the groups of the last search and no other.
SearchGroupsMatchRequest ==
    \A t \in Threads :
        LET c == latest[t]["search"] IN
        (c # NoCall /\ status[c] = "ok") => results[t]["search"].data = <<c>>

\* `result` is optional, so a call without one returns like any other.
OptionalResultReturns == ~crashed
=============================================================================
