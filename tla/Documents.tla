----------------------------- MODULE Documents -----------------------------
(***************************************************************************)
(* The calls on documents with their data: what upsert, update, dele,      *)
(* query, search and count put into their requests, what the server makes  *)
(* of it, and what they hand out of its responses.  When calls are made,   *)
(* carried out, lost and answered is that of RemoteCall, which RpcClient   *)
(* implements.  A call passes a new result object.                         *)
(*                                                                         *)
(* The server is not in the repository: it does what the proto's comments  *)
(* and the callers in the repository expect of it.                         *)
(***************************************************************************)
EXTENDS DocumentData, Functions

CONSTANTS
    Calls,       \* the calls the program makes
    Arguments,   \* what it may pass to them
    Width,       \* 2^32: SearchCond.limit is a uint32
    Half         \* 2^31: the bound of an int

ASSUME ArgumentsAssumption == Arguments \subseteq AllArguments
ASSUME NoArguments == None \notin Arguments
ASSUME WidthAssumption == Width \in Nat \ {0}
ASSUME HalfAssumption == Half \in Nat \ {0}

VARIABLES
    consistency,  \* option_.readConsistency of the client
    outcome,      \* what each call has told its caller
    effects,      \* the requests carried out, in the server's order
    args,         \* the arguments of each call made
    request,      \* its request
    versions,     \* versions[n + 1]: the documents after the first n effects
    answer,       \* the response to each call
    result,       \* what its result object holds in the end
    before        \* history: the calls acknowledged when it was made

vars == <<consistency, outcome, effects, args, request, versions, answer,
          result, before>>

Remote == INSTANCE RemoteCall

Levels == {"eventualConsistency", "strongConsistency"}

Init ==
    /\ Remote!Init
    /\ consistency \in Levels
    /\ args = [c \in Calls |-> None]
    /\ request = [c \in Calls |-> None]
    /\ versions = <<[d \in Ids |-> None]>>
    /\ answer = [c \in Calls |-> None]
    /\ result = [c \in Calls |-> None]
    /\ before = [c \in Calls |-> {}]

\* Several documents in a request or a response.
ProtoDocuments == UNION {[ids -> ProtoDocument] : ids \in SUBSET Ids}

\* The requests.  A search's limit is a uint32, the other numbers are int64, of
\* which dele sends none below zero.
UpsertRequests == [op: {"upsert"}, documents: ProtoDocuments]

UpdateRequests ==
    [op: {"update"}, ids: SUBSET Ids, filter: Filters, update: ProtoDocument]

DeleRequests == [op: {"dele"}, ids: SUBSET Ids, filter: Filters, limit: Nat]

QueryRequests ==
    [op: {"query"}, filter: Filters, retrieveVector: BOOLEAN,
     outputFields: SUBSET Keys, limit: Int, consistency: Levels,
     ids: SUBSET Ids, offset: Int, items: {0}]

SearchRequests ==
    [op: {"search"}, filter: Filters, retrieveVector: BOOLEAN,
     outputFields: SUBSET Keys, limit: 0..Width - 1, consistency: Levels,
     ids: {{}}, offset: {0}, items: Nat]

CountRequests == [op: {"count"}, filter: Filters, consistency: {""}]

Requests == UpsertRequests \cup UpdateRequests \cup DeleRequests
            \cup QueryRequests \cup SearchRequests \cup CountRequests

\* The responses, as far as they are read.
Answers ==
    [affectedCount: Nat]
    \cup [documents: ProtoDocuments, count: Nat]
    \cup [results: Seq(ProtoDocuments)]
    \cup [count: Nat]

Acknowledged == {c \in Calls : outcome[c] = "ok"}

Current == versions[Len(versions)]

(***************************************************************************)
(* The requests.                                                           *)
(***************************************************************************)
UpsertRequest(a) ==
    [op |-> "upsert",
     documents |-> [d \in DOMAIN a.documents |-> ToProto(a.documents[d])]]

\* MUTANT: update forgets the filter.
UpdateWithoutFilter(a) ==
    [op |-> "update", ids |-> a.ids, filter |-> None,
     update |-> ToProto(a.change)]

UpdateRequest(a) ==
    [op |-> "update", ids |-> a.ids, filter |-> a.filter,
     update |-> ToProto(a.change)]

\* MUTANT: dele forgets the filter.
DeleWithoutFilter(a) ==
    [op |-> "dele", ids |-> a.ids, filter |-> None,
     limit |-> IF a.limit > 0 THEN a.limit ELSE 0]

\* No limit is sent unless it is positive.
DeleRequest(a) ==
    [op |-> "dele", ids |-> a.ids, filter |-> a.filter,
     limit |-> IF a.limit > 0 THEN a.limit ELSE 0]

\* The members of the parameters that query and search send alike.
Reading(a, limit, level) ==
    [op |-> a.op, filter |-> a.filter, retrieveVector |-> a.retrieveVector,
     outputFields |-> a.outputFields, limit |-> limit, consistency |-> level,
     ids |-> IF a.op = "query" THEN a.ids ELSE {},
     offset |-> IF a.op = "query" THEN a.offset ELSE 0,
     items |-> IF a.op = "search" THEN a.items ELSE 0]

\* MUTANT: query forgets readConsistency.
QueryWithoutConsistency(a) == Reading(a, a.limit, "")

QueryRequest(a) == Reading(a, a.limit, consistency)

\* MUTANT: search forgets the limit.
SearchWithoutLimit(a) == Reading(a, 0, consistency)

\* An int64 becomes a uint32.
SearchRequest(a) == Reading(a, a.limit % Width, consistency)

\* MUTANT: count forgets the filter.
CountOfEverything(a) == [op |-> "count", filter |-> None, consistency |-> ""]

\* No readConsistency is sent: CountRequest has no such member.
CountRequest(a) == [op |-> "count", filter |-> a.filter, consistency |-> ""]

Request(a) == CASE a.op = "upsert" -> UpsertRequest(a)
                [] a.op = "update" -> UpdateRequest(a)
                [] a.op = "dele" -> DeleRequest(a)
                [] a.op = "query" -> QueryRequest(a)
                [] a.op = "search" -> SearchRequest(a)
                [] a.op = "count" -> CountRequest(a)

Invoke(c, a) ==
    /\ Remote!Issue(c)
    /\ args' = [args EXCEPT ![c] = a]
    /\ request' = [request EXCEPT ![c] = Request(a)]
    /\ before' = [before EXCEPT ![c] = Acknowledged]
    /\ UNCHANGED <<consistency, versions, answer, result>>

(***************************************************************************)
(* The server.                                                             *)
(***************************************************************************)
Selected(store, ids, filter) ==
    {d \in Ids : /\ store[d] # None
                 /\ ids = {} \/ d \in ids
                 /\ Matches(store[d], filter)}

\* A read that does not ask for strong consistency may be of an older version.
Visible(c) ==
    IF request[c].consistency = "strongConsistency" THEN {Len(versions)}
    ELSE 1..Len(versions)

\* The first n documents in an order of the server's own; 0 is no limit.
Firsts(selected, n) ==
    IF n = 0 \/ n >= Cardinality(selected) THEN {selected}
    ELSE {page \in SUBSET selected : Cardinality(page) = n}

\* A negative offset skips nothing, and only a positive limit is one.
Page(selected, offset, limit) ==
    LET skipped == IF offset > 0 THEN offset ELSE 0
        rest == IF skipped >= Cardinality(selected) THEN 0
                ELSE Cardinality(selected) - skipped
    IN  IF rest = 0 THEN {{}}
        ELSE Firsts(selected, IF limit \in 1..rest THEN limit ELSE rest)

\* The vector and the fields of a document that a request asks for.
Shown(document, q) ==
    [vector |-> IF q.retrieveVector THEN document.vector ELSE None,
     fields |-> IF q.outputFields = {} THEN document.fields
                ELSE Restrict(document.fields,
                              q.outputFields \cap DOMAIN document.fields)]

Asks(c, op) == outcome[c] # "unissued" /\ request[c].op = op

Executes(c, op, store, reply) ==
    /\ Remote!TakeEffect(c)
    /\ Asks(c, op)
    /\ versions' = Append(versions, store)
    /\ answer' = [answer EXCEPT ![c] = reply]
    /\ UNCHANGED <<consistency, args, request, result, before>>

ServerUpserts(c) ==
    LET documents == request[c].documents
    IN  Executes(c, "upsert",
            [d \in Ids |-> IF d \in DOMAIN documents
                           THEN Overwrite(Current[d], documents[d])
                           ELSE Current[d]],
            [affectedCount |-> Cardinality(DOMAIN documents)])

ServerUpdates(c) ==
    LET selected == Selected(Current, request[c].ids, request[c].filter)
    IN  Executes(c, "update",
            [d \in Ids |-> IF d \in selected
                           THEN Merge(Current[d], request[c].update)
                           ELSE Current[d]],
            [affectedCount |-> Cardinality(selected)])

ServerDeletes(c, gone) ==
    /\ Executes(c, "dele",
            [d \in Ids |-> IF d \in gone THEN None ELSE Current[d]],
            [affectedCount |-> Cardinality(gone)])
    /\ gone \in Firsts(Selected(Current, request[c].ids, request[c].filter),
                       request[c].limit)

ServerQueries(c) ==
    /\ Asks(c, "query")
    /\ \E n \in Visible(c) :
         LET q == request[c]
             selected == Selected(versions[n], q.ids, q.filter)
         IN  \E page \in Page(selected, q.offset, q.limit) :
                Executes(c, "query", Current,
                    [documents |-> [d \in page |-> Shown(versions[n][d], q)],
                     count |-> Cardinality(selected)])

\* What is near to what is asked for is the server's business, and so is how
\* many there are without a limit.
ServerSearches(c) ==
    /\ Asks(c, "search")
    /\ \E n \in Visible(c) :
         LET q == request[c]
             selected == Selected(versions[n], q.ids, q.filter)
         IN  \E found \in [1..q.items -> SUBSET selected] :
                /\ \A i \in 1..q.items :
                      q.limit = 0 \/ Cardinality(found[i]) <= q.limit
                /\ Executes(c, "search", Current,
                       [results |->
                          [i \in 1..q.items |->
                             [d \in found[i] |-> Shown(versions[n][d], q)]]])

ServerCounts(c) ==
    /\ Asks(c, "count")
    /\ \E n \in Visible(c) :
         Executes(c, "count", Current,
             [count |-> Cardinality(Selected(versions[n], {}, request[c].filter))])

(***************************************************************************)
(* The results.                                                            *)
(***************************************************************************)

\* MUTANT: affectedCount is a short.
NarrowToLess(n) == ((n + 1) % 2) - 1

\* A uint64 becomes an int.
Narrow(n) == ((n + Half) % (2 * Half)) - Half

Decoded(documents) == [d \in DOMAIN documents |-> FromProto(documents[d])]

Return(c, op, written) ==
    /\ Remote!Acknowledge(c)
    /\ Asks(c, op)
    /\ result' = [result EXCEPT ![c] = written]
    /\ UNCHANGED <<consistency, args, request, versions, answer, before>>

upsert(c) == Return(c, "upsert", [affectedCount |-> Narrow(answer[c].affectedCount)])

update(c) == Return(c, "update", [affectedCount |-> Narrow(answer[c].affectedCount)])

dele(c) == Return(c, "dele", [affectedCount |-> Narrow(answer[c].affectedCount)])

query(c) == Return(c, "query", [documents |-> Decoded(answer[c].documents),
                                total |-> answer[c].count])

search(c) == Return(c, "search",
                    [documents |-> [i \in DOMAIN answer[c].results |->
                                      Decoded(answer[c].results[i])]])

count(c) == Return(c, "count", [count |-> answer[c].count])

\* Whatever was amiss, nothing of a response is handed out.
Fail(c) ==
    /\ Remote!GiveUp(c)
    /\ UNCHANGED <<consistency, args, request, versions, answer, result, before>>

Next ==
    \E c \in Calls :
        \/ \E a \in Arguments : Invoke(c, a)
        \/ ServerUpserts(c) \/ ServerUpdates(c)
        \/ \E gone \in SUBSET Ids : ServerDeletes(c, gone)
        \/ ServerQueries(c) \/ ServerSearches(c) \/ ServerCounts(c)
        \/ upsert(c) \/ update(c) \/ dele(c) \/ query(c) \/ search(c) \/ count(c)
        \/ Fail(c)

Spec == Init /\ [][Next]_vars

(***************************************************************************)
(* Properties.                                                             *)
(***************************************************************************)
Writes == {"upsert", "update", "dele"}

Is(c, ops) == args[c] # None /\ args[c].op \in ops

\* Documents with the fields and numbers of a result of the SDK.
Results ==
    [affectedCount: -Half..Half - 1]
    \cup [count: Nat]
    \cup [documents: UNION {[ids -> Document] : ids \in SUBSET Ids}, total: Nat]
    \cup [documents: Seq(UNION {[ids -> Document] : ids \in SUBSET Ids})]

\* Every request is one of the proto's, whatever arguments it was made of, every
\* response and every stored document is too, in particular without an empty
\* array, and what is handed out are documents and numbers of the SDK's types.
TypeOK ==
    /\ consistency \in Levels
    /\ args \in [Calls -> Arguments \cup {None}]
    /\ request \in [Calls -> Requests \cup {None}]
    /\ answer \in [Calls -> Answers \cup {None}]
    /\ Len(versions) = Len(effects) + 1
    /\ \A n \in 1..Len(versions) :
          versions[n] \in [Ids -> ProtoDocument \cup {None}]
    /\ \A c \in Calls : IF c \in Acknowledged THEN result[c] \in Results
                         ELSE result[c] = None
    /\ before \in [Calls -> SUBSET Calls]

\* The documents of version n as a program sees them.
Seen(n) == [d \in Ids |-> IF versions[n][d] = None THEN None
                          ELSE FromProto(versions[n][d])]

Store == INSTANCE DocumentStore
            WITH docs <- Seen(Len(versions)),
                 applied <- {c \in Calls : Remote!HasEffect(c)}

\* As far as the program can see, every upsert, update and dele does in one step
\* and at most once what its arguments say, to the documents they select and
\* to no other: what goes through the request is neither lost nor widened, and
\* an empty array becomes the empty string.
ImplementsDocumentStore == Store!Spec

\* The documents a query or search handed out, in all its groups.
HandedOut(r) ==
    IF args[r].op = "query" THEN {result[r].documents}
    ELSE {result[r].documents[i] : i \in DOMAIN result[r].documents}

\* A query with strong consistency that returned 0 hands out what was upserted
\* by a call that returned 0 before it, provided nothing else was written at
\* the same time or since: every field asked for with its value and type, but
\* for the empty array.
ReadsLastWrite ==
    consistency = "strongConsistency" =>
        \A r \in Acknowledged : Is(r, {"query"}) =>
            \A w \in before[r] :
                (/\ Is(w, {"upsert"})
                 /\ args[r].filter = None /\ args[r].ids = {}
                 /\ args[r].limit = 0 /\ args[r].offset = 0
                 /\ \A x \in Calls \ {w} : Is(x, Writes) =>
                        x \in before[w] \/ r \in before[x])
                => \A d \in DOMAIN args[w].documents :
                      LET given == args[w].documents[d].fields
                          asked == IF args[r].outputFields = {} THEN DOMAIN given
                                   ELSE DOMAIN given \cap args[r].outputFields
                      IN  /\ d \in DOMAIN result[r].documents
                          /\ result[r].documents[d].fields
                                = [k \in asked |-> Readable(given[k])]

\* The documents of version n that meet a filter, as a program sees them.
Meeting(n, filter) ==
    {d \in Ids : Seen(n)[d] # None /\ Meets(Seen(n)[d], filter)}

\* Call w, carried out on version n, gives field k of document d the value x, as
\* the program reads it: an upsert of d does, or an update that selects d by its
\* ids and its filter.
Gives(w, n, d, k, x) ==
    \/ /\ Is(w, {"upsert"})
       /\ d \in DOMAIN args[w].documents
       /\ k \in DOMAIN args[w].documents[d].fields
       /\ x = Readable(args[w].documents[d].fields[k])
    \/ /\ Is(w, {"update"})
       /\ d \in Meeting(n, args[w].filter)
       /\ args[w].ids = {} \/ d \in args[w].ids
       /\ k \in DOMAIN args[w].change.fields
       /\ x = Readable(args[w].change.fields[k])

\* Every field that a query or search hands out was given to that document by a
\* call carried out before it, whether the program knows that call to have
\* succeeded or not: an upsert of the document, or an update that selected it
\* at the time.  Its value and its type are the ones given, but for an empty
\* array, which is handed out as the empty string.
NothingInvented ==
    \A n \in 1..Len(effects) :
        LET r == effects[n]
        IN  (r \in Acknowledged /\ Is(r, {"query", "search"})) =>
                \A documents \in HandedOut(r) : \A d \in DOMAIN documents :
                    \A k \in DOMAIN documents[d].fields : \E m \in 1..n - 1 :
                        Gives(effects[m], m, d, k, documents[d].fields[k])

\* All that a read hands out is of one version of the collection: documents that
\* met the filter of its call then, as the program sees them, and the number of
\* them.
AnswersOneVersion ==
    \A r \in Acknowledged : Is(r, {"query", "search", "count"}) =>
        \E n \in 1..Len(versions) :
            LET meeting == Meeting(n, args[r].filter)
            IN  IF args[r].op = "count"
                THEN result[r].count = Cardinality(meeting)
                ELSE /\ \A documents \in HandedOut(r) :
                           \A d \in DOMAIN documents :
                              /\ d \in meeting
                              /\ documents[d] = Shown(Seen(n)[d], args[r])
                     /\ (args[r].op = "query" /\ args[r].ids = {})
                           => result[r].total = Cardinality(meeting)

\* No read hands out more documents than its limit, and a search has one group
\* for each thing searched for.  A limit of SearchDocumentParams is kept only
\* if a uint32 holds it.
AnswersWithinLimits ==
    \A r \in Acknowledged : Is(r, {"query", "search"}) =>
        /\ args[r].op = "search" => Len(result[r].documents) = args[r].items
        /\ args[r].limit \in 1..Width - 1 =>
              \A documents \in HandedOut(r) :
                  Cardinality(DOMAIN documents) <= args[r].limit

\* The affectedCount of a dele that returned 0 is the number of documents that
\* it removed, as long as an int holds it.
AffectedCountIsExact ==
    \A n \in 1..Len(effects) :
        LET w == effects[n]
            gone == {d \in Ids : versions[n][d] # None /\ versions[n + 1][d] = None}
        IN  (w \in Acknowledged /\ Is(w, {"dele"}) /\ Cardinality(gone) < Half)
            => result[w].affectedCount = Cardinality(gone)
=============================================================================
