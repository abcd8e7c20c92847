# TLA+ specifications of the Tencent VectorDB C++ SDK

The SDK is a client library: `vectordb::RpcClient` wraps the gRPC stub of the
service `olama.SearchEngine`, one blocking method per remote operation, and
`vectordb::Filter` builds the condition text of the requests. There is no server
in the repository, no thread is started by the library and nothing is persisted.
What is hard about it is what happens *around* a call: several threads in one
client, deadlines that end a call whose request lives on, answers that come too
late, result objects that are used again, a filter that is read while it is
written. That is modelled and proved first; the session (the wait for the
connection, timeouts, closing), the way of documents and of a collection's indexes to
the server and back, and the table of the stub's methods follow.

Paths below are relative to `src/vectordatabase/` unless they start with `src/`
of the repository's root.

## Inventory

| Component | State | Operations | Interacts with |
|---|---|---|---|
| Session (`src/rpc_client.cpp`) | `grpcChannel_`, `stub_`, `option_` (timeout, readConsistency), credentials | constructor (waits for the connection, may throw), `setTimeout`, `closeConnection`, the authorization interceptor | all calls use `stub_`; query and search read `option_` |
| Database API (`src/rpc_database.cpp`) | the caller's result | `createDatabase`, `listDatabases`, `dropDatabase` | stub, server |
| Collection API (`src/rpc_collection.cpp`) | the caller's result | `createCollection`, `listCollections`, `describeCollection`, `truncateCollection`, `dropCollection` | stub, server, codec |
| Document API (`src/rpc_document.cpp`) | the caller's result | `upsert`, `query`, `dele`, `update`, `search`, `count` | stub, server, codec, Filter |
| Index API (`src/rpc_index.cpp`) | the caller's result | `rebuildIndex` | stub, server |
| Filter (`src/filter.cpp`, `include/types/filter.h`) | `cond`, `mutex` | `andCond`, `orCond`, `andNotCond`, `orNotCond`, static `in`, `notIn`, `include`, `exclude`, `includeAll` | copied by query, dele, update, search, count |
| Codec (`src/helper.cpp`) | none | `convertField2Proto`, `convertProto2Field`, `toCollection` | called by the handlers |
| Types (`include/types/*.h`) | the fields of results, parameters, documents | constructors and accessors | shared by all |
| Service and method table (`proto/olama.proto`, `README.md` of the root) | none | 19 methods; a table of names edited by hand | the generated stub |
| Server | databases, collections, documents (external) | executes, refuses, loses a request | answers the stub |

The example (`src/example/main.cpp`), the tests and the build files have no logic
of their own; the tests call a live server one call after the other.

**Hard behaviours.** (1) A call is ended by its own deadline while its request is
still on the way: the caller hears -1 and the server may carry the request out
later. (2) Several threads block in one client at once. (3) Reads may be answered
by a replica behind the last write; `readConsistency` decides. (4) The result is
the caller's object: what a failing call, a repeated call or a null pointer leaves
of it. (5) `Filter::cond` is written under a mutex and read without one. (6) Values
that change meaning at an edge: whole seconds, narrowed limits, empty lists.

**What makes each component correct.**

- Calls: 0 is returned only for what was carried out, at most once; real-time order;
  strong reads; results that tell the truth about the last call; every call returns.
- Filter: no clause lost or doubled, one head, call order, the lock released; a
  request takes a whole text.
- Session: the wait of the constructor, which timeout a call really has, what
  closing the client does to calls that are pending and to calls that follow.
- Requests and codec: what is sent is what was asked, what is read back is what was
  stored, for the indexes of a collection and for documents; a read shows one version
  of the collection within the limits asked for; counts are exact.
- Method table: each stub method calls the name of its own operation.

## Modules

| Module | What it is | Code |
|---|---|---|
| `RemoteCall` | what a caller may rely on: an abstract call, its effect, its outcome | the contract in `include/rpc_client.h` |
| `RpcClient` | the life of all fifteen calls | the handlers of `src/rpc_*.cpp` |
| `RpcClientProofs` | theorems about `RpcClient`: types, the log, the refinement | |
| `RpcResultsProofs` | theorems about `RpcClient`: what the result objects hold | |
| `MCRpcClient` | its instances for TLC | |
| `FilterText` | the text a filter assembles, as operators | `Filter::assemblyCond`, the constructors |
| `FilterLog` | what the builders of one filter may rely on: one step per addition | |
| `Filter` | the threads inside `assemblyCond` and the requests that copy `cond` | `src/filter.cpp`, the `set_filter` lines of `src/rpc_document.cpp` |
| `FilterProofs` | theorems about `Filter` | |
| `Session` | the connection, the clock and the deadlines of one client | `src/rpc_client.cpp`, `ClientOption`, the deadline lines of the handlers |
| `SessionProofs` | theorems about `Session` | |
| `MCSession` | its instances for TLC | |
| `CollectionIndexes` | a collection's indexes from the caller to the server and back | `createCollection`, `describeCollection`, `listCollections`, `toCollection` |
| `CollectionIndexesProofs` | theorems about `CollectionIndexes`: both loops, what is read back | |
| `MCCollectionIndexes` | its instances for TLC | |
| `DocumentData` | fields, documents, filters and arguments, as the program sees them and as they travel | `convertField2Proto`, `convertProto2Field`, `include/types/document.h` |
| `DocumentStore` | what a program may rely on when it writes documents | |
| `Documents` | the six calls on documents: request, server, response, result | `src/rpc_document.cpp` |
| `DocumentsProofs` | theorems: the round trip of a field, the refinement of `DocumentStore` | |
| `DocumentResultsProofs` | theorems: what reads hand out and writes count | |
| `DocumentReadsProofs` | theorems: strong reads, types | |
| `MCDocuments` | its instances for TLC | |
| `MethodTable` | the table of paths against the methods of the service | `README.md` of the root, `proto/olama.proto` |

### RpcClient

All handlers have one shape, so the module has one action per *half* of a handler.
`Invoke` is the first half: the request is built, the deadline set, the thread
blocks in the stub. The second half starts when the stub returns and runs to the
handler's return without touching anything shared but the caller's result, so it is
one step: `StatusError` (`!status.ok()`), `CodeError` (`response.code() != 0`),
`NoCollection` (the third failing branch of `describeCollection`), and one success
action per method, which writes what that handler writes: the three database
methods leave `message` alone, `query` leaves `success` and `message` alone,
`search` pushes behind what is there, the others replace.

Data is abstract. A message or a payload is the call it came from, so a result
`[success, message, data]` says whose answers it holds; counters, warnings and
names are part of `data`. `results[t][o]` is the object thread `t` passes to method
`o`. A call may pass the object it used before or a new one, whose `success` is
indeterminate because no result type initialises it; if the header gives `result`
the default `nullptr` (`ResultIsOptional`) it may pass none, and then every way out
writes through the null pointer and `crashed` ends the process.
A caller passes different objects from different threads: sharing one result among
concurrent calls is a race of the caller's own and not modelled.

The server is external. It keeps `log`, the requests it carried out in order; a
request in `net` is carried out once, refused or lost, at any time, also after its
caller has given up. `observed[c]` says how much of the log the answer to `c`
reflects: all of it for a write or a read that carried strong consistency, any
prefix otherwise. `before[c]` (what had been acknowledged when `c` was made) and
`latest` (the call that last returned through a result) are history variables.

### Filter

`cond` is a sequence of clauses, each with its connective and the addition it came
from; a *blank* clause is an empty condition, such as the text of `Filter::in` for
an empty list. An addition goes through `CallAssemblyCond`, `Lock`, `Build` (the
right-hand side is computed from `cond`), `BeginAssign` and `EndAssign` (which also
unlocks and returns). A request copies `cond` from `BeginCopy` to `EndCopy`. If the
copy overlaps an assignment the code has undefined behaviour and the request holds
any of: the old text, the new one, `Torn`.

### Session

`now` counts ticks, `Second` of them to 1000 ms, so a timeout can be a fraction of a
second. The constructor is two steps: `Construct` creates the channel and starts to
wait, `WaitForConnected` or `ConstructorThrows` ends it. `WaitUntil` is the deadline
as the code computes it, with an integer division. `channel` and `stub` are the two
references to the gRPC channel: `grpcChannel_`, which `closeConnection` resets, and
the one inside `stub_`, which nobody resets. `setTimeout` and `closeConnection` are
atomic and may come between any two steps of the calls, which run in threads of
their own; reading and writing `option_.timeout` never meet in the code after
construction, since no call reads it. A call is only its waiting: `Answer`,
`Unavailable` (the stub is not asked to wait for a ready channel) or
`DeadlineExceeded`. The network (`Connect`, `Disconnect`) is external. `timed` (that
`setTimeout` has been called), `made` (the circumstances of each call, `timed` among them)
and `connected` are history variables.

### CollectionIndexes

A program's listing is two lists of indexes; an index is its field's name and type,
the list `entry` it comes from, which stands for `indexType`, and `metric`, the number of
the `vectorIndex` entry whose `dimension`, `metricType` and `params` it carries, 0 for
none. Both lists may hold any type: `IndexRead` is what `toCollection` reads of a column,
and an index of the list `vectorIndex` that is not of type `vector` loses its `metric`
there.
`Put` is the assignment to a slot of the request's map, so a later index of a field
replaces an earlier one. `toCollection` iterates over the map in any order
(`Orders`), appends to the lists of the object it is given and puts an index into one
list or the other by its type. The server keeps the request's map as it is.

### Documents

`DocumentData` has each type twice: `Field` and `Document` as the program has them,
`ProtoField` and `ProtoDocument` as they travel, and the conversions between the two,
which are the loops of the handlers over `doc.fields` and `doc.vector` with the two
functions of `src/helper.cpp` inside. A value is a model value of its kind; a field's
kind matters (the variant's alternative, the member of the oneof), and so does an array
that is empty: nothing sets a member of the oneof for it.

`Invoke` builds the request, one operator per handler (`UpsertRequest` to
`CountRequest`): what is sent only under a condition (`limit > 0` in `dele`), narrowed
(`search`'s limit, an `int64` put into a `uint32`) or not sent at all (`count`'s
consistency). Members of the parameter types without an initialiser that a program
does not set have any value, so `AllArguments` has every number the header's types have,
negative ones too; the theorems are about all of them, and the runs about the 17 of
`MCDocuments`. `Requests` and `Answers` are the types of the proto. `upsert`,
`update`, `dele`, `query`, `search` and `count` are the second halves of the handlers
on the way out with 0: they decode the response (`FromProto`) and narrow
`affectedCount` to an `int`. `Fail` stands for every other way out, which
`RpcClient` has one by one.

When a call is made, carried out, given up and acknowledged is that of `RemoteCall`,
of which `Documents` has an instance (`Remote`); that `RpcClient` implements
`RemoteCall` is what `CallsImplementRemoteCall` proves. So a request may be carried out
after its caller has been told -1, at any time, and at most once.

The server is external. `versions` has the documents after every effect; a write makes
a version, a read answers from any (from the last one if the request says
`strongConsistency`). An upsert replaces the fields of a document, an update merges; both
leave the vector alone when they carry none. No ids and no filter select every document,
a limit of 0 or less is none, a negative offset skips nothing, and which documents a limit
leaves is the server's choice. A
filter is `key = value` on a string field, as in `src/example/main.cpp`.
`before` is a history variable.

`DocumentStore` is the same collection as the program sees it: typed fields, no
request, no response, one step per write.

### MethodTable

gRPC gives each method of the stub the path at its own position in a generated array;
the root's `README.md` has that array replaced by a table of 17 paths. `Methods` are
the 19 methods of the proto in order, `Paths` where a method goes (behind the end of
the table, anywhere), `Called` the fifteen methods `RpcClient` uses.

## Runs

| Run | Instance | Checks | Shows |
|---|---|---|---|
| `calls_all` | 1 thread, 2 calls, 15 methods, fair | `TypeOK`, `TruthfulResult`, `OneAnswerUnlessSearch`, `EveryCallReturns` | every way out of every handler; results agree with the last call; no call hangs |
| `calls_race` | 2 threads, 3 calls, upsert, query, search, rebuildIndex | `AcknowledgedOnce`, `RealTimeOrder`, `StrongReads`, `DataIsAcknowledged`, `ImplementsRemoteCall` | late requests and answers against later calls, in the log and in the results; the calls implement `RemoteCall` |
| `query_success` | 1 thread, 2 calls | `SuccessMatchesReturn` | **violated**: `query` never sets `success` on its way out with 0 |
| `search_groups` | 1 thread, 2 calls | `SearchGroupsMatchRequest` | **violated**: `search` does not clear the groups of an earlier search |
| `null_result` | 1 thread, 2 calls | `OptionalResultReturns` | **violated**: the default `result = nullptr` is written through |
| `filter_build` | 2 additions, 1 request, fair | `TypeOK`, `NoClauseLost`, `OneHead`, `CallOrder`, `WholeCopy`, `ImplementsFilterLog`, `EveryAdditionReturns` | concurrent additions and a copy; each addition is one step of `FilterLog`, and the mutex is always released |
| `session_calls` | 1 call, 12 ticks, fair | `TypeOK`, `CallsFollowConnection`, `PendingCallsKeepChannel`, `WaitsWholeSeconds`, `ConstructionEnds` | a client that is timed, closed and disconnected around a call; the constructor ends, whatever the network does |
| `session_timeout` | 1 call, 5 ticks | `SetTimeoutGovernsCalls` | **violated**: `setTimeout` does not reach the deadline of a call made after it |
| `session_close` | 1 call, 5 ticks | `NoAnswerAfterClose` | **violated**: a call after `closeConnection` is answered |
| `collection_indexes` | 2 collections, listings of up to 3 indexes | `TypeOK`, `IndexesSurvive`, `LastIndexOfField` | indexes created, dropped, created again, described and listed |
| `documents` | 3 calls, 2 ids, 1 key, 17 arguments | `TypeOK`, `ReadsLastWrite`, `NothingInvented`, `AnswersOneVersion`, `AnswersWithinLimits`, `AffectedCountIsExact`, `ImplementsDocumentStore` | documents written, late or in order, and read back through requests and responses; the writes implement `DocumentStore` |
| `method_table` | the table as it is | `CallReachesOwnMethod` | **violated**: the table has no path for `modifyVectorIndex` and none for `count`, so from `upsert` on a method reaches its neighbour's path |

Two remarks on what these properties do not say. `NothingInvented`, `ReadsLastWrite` and
the store compare values as a program may read them (`Readable`): the empty array that
comes back as an empty string is accepted, every other change of kind or value is not.
`AnswersWithinLimits` and `AffectedCountIsExact` are about limits and counts that fit the
type they are narrowed to.

One finding is shown by a run that passes. The test `RebuildIndexEmptyParams`
(`tests/rpc_index_test.cpp:24-31`) expects `rebuildIndex` to return -1 *and* to leave task
ids in a new result. `DataIsAcknowledged` says that no result ever holds data of a call
that did not return 0; `calls_race`, in which `rebuildIndex` is one of the methods, finds
it true and `DataOfAcknowledgedCalls` proves it, so it is the test that asks for what the
code cannot do.

**Bounds.** `Calls`, `Additions` and `Requests` are the bounds: each element is one
call, made once, so a run's length is bounded and deadlock checking is off (the
program may stop when its calls are used up). Three calls are what the ordering
hazards need: one acknowledged, one given up and carried out late, one reader; made
by one thread they are also success, failure, success through one result object. Two
threads suffice because no property relates more than two callers, and one for the
handlers one by one: a handler's second half touches its own thread's results only.
Two additions, one of which may find a clause of the constructor's, race for the
first clause or for the mutex while the request copies; more of them are covered by
the theorems. The symmetry sets permute calls and threads
(and, below, names of indexes); they are used for invariants and for the step-by-step
`ImplementsRemoteCall` and `ImplementsDocumentStore`, which name none of them, and never
with fairness. All inputs are enumerated: which method,
whether a result is passed and whether it is new, the client's consistency, the
connective and blankness of a condition, and the constructor of the filter.

In `Session`, `Second = 2` is the smallest that tells a timeout from its whole
seconds, and the timeouts 1 and 3 are half a second (cut to none) and one and a half.
The default of `ClientOption`, five seconds, is ten ticks: a client built without
options fits into the 12 ticks of `session_calls` only. One call is enough: calls meet
the client and the clock, not each other. `Horizon` ends time; no call and no wait
begins that would outlast it, so that the bound cuts no deadline off. In
`CollectionIndexes` one vector index and two filter indexes over two field names
already collide within a list and across the lists; the field types include a vector
index that is not of type `vector`, and two collections show a list response that
mixes objects; both names are permuted by symmetry.

In `Documents` three calls are a write, a second write that may be carried out late, and
a read; two ids, so that a filter, a limit or an offset can tell one document from the
other. The 17 arguments of `MCDocuments` have each kind of condition the code tells apart:
a full, an empty and an integer field, a document without a vector, ids, a filter, both or
neither, limits that are negative, 0, 1 and too large, a negative offset. `Width` and `Half` stand for 2^32
and 2^31 and are as small as the cases allow: with `Width = 4` a search limit of
`Width + 1` is sent as 1, and with `Half = 2` an `affectedCount` of two becomes negative.
There is no fairness in `Documents`: that calls return is `EveryCallReturns` of
`RpcClient`.

**Fairness.** `FairSpec` of `RpcClient` is weakly fair only to `StatusError`: every
handler sets a deadline before it enters the stub, so gRPC ends the call with
`DEADLINE_EXCEEDED` if nothing else does. Nothing is assumed of the server or the
network. `FairSpec` of `Filter` is weakly fair to each thread inside `assemblyCond`:
a running thread goes on, and gets the mutex when it is free; as each addition
happens once, a waiting thread cannot be overtaken for ever. `FairSpec` of `Session`
is weakly fair to the clock and to the two ends of `WaitForConnected`: gRPC reports a
channel that stays ready, and a deadline that has passed. A connection need not come
about.

## Proofs

The eight proof modules hold for every finite or infinite set of threads, calls,
additions, requests, arguments, fields, values, collections and indexes, from these assumptions: the methods are those of the header
(`OperationsAssumption`); the marks "no call", "no addition" and "the constructor"
are no calls or additions (`NoCallAssumption`, `NoAdditionAssumption`,
`ConstructorAssumption`, `RequestsAssumption`); a second has at least one tick, and
the timeouts and the horizon are natural numbers of ticks (`SecondAssumption`,
`HorizonAssumption`, `TimeoutsAssumption`). For documents: there are finitely many ids
(`IdsAssumption`), the empty string is a string and an array is one of strings
(`EmptyStringAssumption`, `ArraysAssumption`), the mark "none" is no vector, document or
argument (`NoneAssumption`, `NoArguments`), what is passed has the types of the header
(`ArgumentsAssumption`), and the two widths are positive (`WidthAssumption`,
`HalfAssumption`). For indexes: the two bounds on the lengths of lists are natural numbers
(`MaxAssumption`).

- `TypeCorrect` is proved by one step per action; `HandlersReturn` collects what the
  second halves have in common, so the fifteen handlers are opened once.
- `AcknowledgedOnce`, `RealTimeOrder` and `StrongReads` are not inductive. `IInv`
  adds: a request in the net is not in the log and has no answer (`InFlight`), an
  answer with code 0 exists only for a logged call and a logged call is not unissued
  (`Answered`), the log has no duplicates (`OnceInLog`), an acknowledged call is in
  the log (`Acked`), and what a strong read's answer reflects was fixed when the
  server executed it (`Strong`). The lemmas `InvokeStep`, `ServerExecutesStep`,
  `RequestDroppedStep` and `ReturnStep` keep it, one per kind of step.
- `CallsImplementRemoteCall` maps `status` to `outcome` and `log` to `effects`:
  `Invoke` is `Issue`, `ServerExecutes` is `TakeEffect`, a success is `Acknowledge`, a
  failing branch is `GiveUp`, and refusing, losing or crashing stutters.
- For the filter, `MutexInv` says that the holder of the mutex is exactly the call
  between `Lock` and `EndAssign` and that what it has built extends the text *as it
  still is*; from that `TextInv` (no clause lost, one head, order, whole copies) is
  inductive, since an assignment adds one clause at the end (`AssignmentExtends`).
- `FilterImplementsFilterLog` maps `EndAssign` to `Add` and hides the steps inside.
- For the session, an open client has a stub and has been connected, and a client
  that is not open has made no call; `CallsNeedConnection` and
  `PendingCallsSurviveClose` follow. `ConstructorWaits` rests on `WholeSeconds`: a
  timeout cut to whole seconds is less than a second shorter.

- For the results of `RpcClient`, every clause of `ResultInv` is about one result object:
  the answers in it come from acknowledged calls of its own method, each once (`Owned`,
  `Distinct`), success and message agree with the call that last wrote them (`Truthful`),
  and at most one answer is held unless the method is `search` (`Single`).
  `HandlersWrite` opens the handlers once, `WrittenFits` says that what they write fits,
  and `FitsStays` that what is not written still does.
- `RoundTrip`: a field that goes out and comes back is the field that was given, but for
  the empty array, which comes back as the empty string.
- `DocumentsImplementStore` maps the current version to what the program sees of it
  (`Seen`), and needs of `IInv` that versions and documents have their types, that there
  is one version more than effects, and that a request carries what its arguments say
  (`RequestCarries`). What the server does to documents as they travel then is what the
  store does to documents as the program sees them: `Overwritten` and `Merged` say that
  decoding commutes with writing, `SameFilter` that a condition selects the same documents
  on both sides.
- `AnswerInv` says that each response is of one version of the collection and within its
  request's limit, and that a dele's count is the size of what it removed; from it follow
  `ReadsOneVersion`, `LimitsHold` and `CountsAreExact`. `OriginInv` says that every field
  of every version was given to that document (`Gives`): by an upsert of it, or by an
  update, at an earlier version in which the document was among the update's ids and met
  its filter. A later version changes only what its own effect gives (`StoreGiven`), and
  what was given stays given (`OriginStays`); with the version that `AnswerInv` names for
  a response, `FieldsAreGiven` follows for all that is handed out.

- `ReadsTheLastWrite` needs the order of the versions. `ReadInv` says that a call that was
  acknowledged before another was made had its effect before it (`Ordered`), that versions
  with no write between them are the same (`Unchanged`), that an upsert leaves in the
  version after it what its request carried (`Upserted`), and that under strong consistency
  the answer to a query is of the version it was carried out on (`StrongAnswers`). So
  between the effect of the upsert and the query there is no write (`NothingBetween`), the
  version the query reads still has the documents, and `ReadsUpserted` follows them through
  the page, which is all of it (`WholePage`), and the conversions to the result.
  `Counted` (the response to a write has a count) and `Fresh` (a call that has not returned
  0 has no result) are what `DocumentTypes` needs besides `IInv` and `AnswerInv`, and
  `RequestType`: from any arguments of the header's types each handler makes a request of
  its message's type.
- `CollectionIndexes` has two loops, both folds of the community modules, whose recursion
  is over sets of positions. `FoldExists` shows that the function such a fold is defined
  by exists and `FirstIterations` which position it takes last; with these
  `RequestSteps` and `toCollectionSteps` unfold a fold into the values its loop has after
  0, 1, 2, ... iterations. Induction over the iterations (`Iterations`) is that of a set
  of naturals without a least missing element, from the library's `WFMin`: that theorem
  takes sets, not operators, so the provers can instantiate it. `RequestHasLast` and
  `toCollectionSplits` say what each loop computes for lists and maps of any size.
- `IndexInv` says that the server keeps the request of the listing last created and that
  what was read since is `toCollection` of that request in some order. As an order has
  every name once (`MapToCollection`), the names read are a bijection to the names of the
  map (`ColumnsRead`), from which `LastIndexIsRead` and `ListingSurvives` follow, the
  latter because the columns of a well-formed listing are a bijection to those names too.
  What is read of the map is `AsRead`: it keeps names, types and entries (`ReadMap`), and of
  a well-formed listing everything.

Model-checked only: the liveness properties `EveryCallReturns`, `EveryAdditionReturns` and
`ConstructionEnds` (fairness and ENABLED are out of the prover's reach) and the six violated
properties. Every other property of the runs is a theorem.

## Not modelled

- The static builders of `Filter` (pure text) and what a text means: the repository has
  neither the server's grammar nor its precedence, so that `a or b` followed by
  `andCond(c)` may or may not mean what the calls say, and `and ()` may or may not be
  refused. `Filter` takes blank conditions as an input and proves which text is sent.
- `update` and `dele` with `params == nullptr` (nothing says what the server makes of an
  empty request), `buildIndex`, `searchParams` and scores, the nearness of vectors, and
  filters other than `key = value`. Of these the ones that compare with the empty string
  (`Filters` in `DocumentData`) are left out: where a program stored an empty array it reads
  an empty string and the server has no value, and nothing in the repository says whether
  that meets `key = ""`.
- The contents of the database calls and of `rebuildIndex`, copied member by member;
  in `CollectionIndexes` the members of a collection other than its indexes.
- The authorization interceptor adds one header to each call and the constructor strips a
  leading `http://`: neither has state. TLS, name resolution, the backoff between
  reconnections, message size limits and gRPC's own threads are the library's.
  Exceptions from memory exhaustion are left out.
- The example, the tests and the build files: no logic of their own.

Two things are in the models and have no violated run of their own: a request that copies a
filter during an assignment may hold a torn text (`Torn` in `Filter`), and the constructor
cuts its timeout to whole seconds (`WaitUntil` in `Session`).

## Plan

1. Done: `RemoteCall`, `RpcClient`; `FilterText`, `FilterLog`, `Filter`; `Session`;
   `CollectionIndexes`; `DocumentData`, `DocumentStore`, `Documents`; `MethodTable`; their
   runs and, but for the last, their proofs.
2. `Catalog`: databases and collections behind the log of `RemoteCall`, as `Documents` has
   documents: a late `createCollection` after a drop, `truncateCollection` against a late
   upsert.
3. `FilterExpr`, should the server's grammar become known.
