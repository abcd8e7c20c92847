----------------------- MODULE DocumentReadsProofs -----------------------
(***************************************************************************)
(* A strong query that returned 0 hands out what was upserted last, for    *)
(* any number of calls, documents, fields and values, and any arguments;   *)
(* and what is handed out has the types of the SDK.                        *)
(*                                                                         *)
(* ReadInv relates three orders: that in which a program's calls return    *)
(* and are made (`before`), that of the server (`effects`), and that of    *)
(* the versions of the collection.                                         *)
(***************************************************************************)
EXTENDS DocumentResultsProofs

(***************************************************************************)
(* The invariant.                                                          *)
(***************************************************************************)

\* Whatever was acknowledged before a call was made had its effect before it.
Ordered ==
    /\ \A c \in Calls : before[c] \subseteq Acknowledged
    /\ \A n \in 1..Len(effects) : \A b \in before[effects[n]] :
          \E m \in 1..n - 1 : effects[m] = b

\* From version m to version n nothing was written.
Quiet(m, n) == \A i \in m..n - 1 : ~Is(effects[i], Writes)

\* Only writes make versions that differ.
Unchanged ==
    \A n \in 1..Len(versions) : \A m \in 1..n :
        Quiet(m, n) => versions[m] = versions[n]

\* What an upsert has made of its documents.
Upserts(a, old, new) ==
    \A d \in DOMAIN a.documents :
        new[d] = Overwrite(old[d], ToProto(a.documents[d]))

Upserted ==
    \A n \in 1..Len(effects) :
        Is(effects[n], {"upsert"}) =>
            Upserts(args[effects[n]], versions[n], versions[n + 1])

\* A strong query is answered from the last version.
StrongAnswers ==
    /\ \A c \in Calls : Is(c, {"query"}) => request[c].consistency = consistency
    /\ consistency = "strongConsistency" =>
          \A n \in 1..Len(effects) : Is(effects[n], {"query"}) =>
              QueryAnswer(answer[effects[n]], request[effects[n]], versions[n])

\* The response to a write has a count.
Counted ==
    \A n \in 1..Len(effects) :
        Is(effects[n], Writes) => answer[effects[n]].affectedCount \in Nat

\* What travels has its types, and a call that has not returned 0 has written no
\* result.
Fresh == /\ consistency \in Levels
         /\ before \in [Calls -> SUBSET Calls]
         /\ request \in [Calls -> Requests \cup {None}]
         /\ answer \in [Calls -> Answers \cup {None}]
         /\ \A c \in Calls \ Acknowledged : result[c] = None

ReadInv == Ordered /\ Unchanged /\ Upserted /\ StrongAnswers /\ Counted /\ Fresh
(***************************************************************************)
(* The steps.                                                              *)
(***************************************************************************)

\* What a step of the server does, by the kind of the call.
Effect(c, store, reply) ==
    /\ ~Is(c, Writes) => store = Current
    /\ Is(c, {"upsert"}) => Upserts(args[c], Current, store)
    /\ (Is(c, {"query"}) /\ request[c].consistency = "strongConsistency")
          => QueryAnswer(reply, request[c], Current)
    /\ Is(c, Writes) => reply.affectedCount \in Nat
    /\ reply \in Answers

LEMMA IdsAreFinite ==
    ASSUME NEW ids \in SUBSET Ids
    PROVE  Cardinality(ids) \in Nat
BY IdsAssumption, FS_Subset, FS_CardinalityType

\* The call carried out is one of the kind the server takes it for.
LEMMA ExecutedCall ==
    ASSUME IInv, NEW c \in Calls, NEW op, NEW store, NEW reply,
           Executes(c, op, store, reply)
    PROVE  /\ args[c] \in Arguments /\ args[c].op = op
           /\ \A ops : Is(c, ops) <=> op \in ops
           /\ Carries(request[c], args[c])
<1>1. args[c] \in Arguments /\ Carries(request[c], args[c]) /\ request[c].op = op
  BY DEF Executes, Asks, IInv, Linked
<1>2. args[c].op = op
  BY <1>1 DEF Carries
<1> QED
  BY <1>1, <1>2, NoArguments DEF Is

\* The requests are the proto's, whatever the arguments.
LEMMA RequestType ==
    ASSUME consistency \in Levels, NEW a \in Arguments
    PROVE  Request(a) \in Requests
<1>1. a \in AllArguments
  BY ArgumentsAssumption
<1>2. CASE a \in UpsertArguments
  <2> DEFINE documents == [d \in DOMAIN a.documents |-> ToProto(a.documents[d])]
  <2>1. a.op = "upsert" /\ a.documents \in UNION {[ids -> Document] : ids \in SUBSET Ids}
    BY <1>2 DEF UpsertArguments
  <2>2. documents \in [DOMAIN a.documents -> ProtoDocument] /\ DOMAIN a.documents \in SUBSET Ids
    BY <2>1, ToProtoIs
  <2>3. documents \in ProtoDocuments
    BY <2>2 DEF ProtoDocuments
  <2>4. Request(a) = [op |-> "upsert", documents |-> documents]
    BY <2>1 DEF Request, UpsertRequest
  <2>5. Request(a) \in UpsertRequests
    BY <2>3, <2>4 DEF UpsertRequests
  <2> QED
    BY <2>5 DEF Requests
<1>3. CASE a \in UpdateArguments
  <2>1. /\ a.op = "update" /\ a.ids \in SUBSET Ids /\ a.filter \in Filters
        /\ ToProto(a.change) \in ProtoDocument
    BY <1>3, ToProtoIs DEF UpdateArguments
  <2>2. Request(a) = [op |-> "update", ids |-> a.ids, filter |-> a.filter,
                      update |-> ToProto(a.change)]
    BY <2>1 DEF Request, UpdateRequest
  <2>3. Request(a) \in UpdateRequests
    BY <2>1, <2>2 DEF UpdateRequests
  <2> QED
    BY <2>3 DEF Requests
<1>4. CASE a \in DeleArguments
  <2>1. /\ a.op = "dele" /\ a.ids \in SUBSET Ids /\ a.filter \in Filters
        /\ a.limit \in Int
    BY <1>4 DEF DeleArguments
  <2>2. Request(a) = [op |-> "dele", ids |-> a.ids, filter |-> a.filter,
                      limit |-> IF a.limit > 0 THEN a.limit ELSE 0]
    BY <2>1 DEF Request, DeleRequest
  <2>3. (IF a.limit > 0 THEN a.limit ELSE 0) \in Nat
    BY <2>1
  <2>4. Request(a) \in DeleRequests
    BY <2>1, <2>2, <2>3 DEF DeleRequests
  <2> QED
    BY <2>4 DEF Requests
<1>5. CASE a \in QueryArguments
  <2>1. /\ a.op = "query" /\ a.ids \in SUBSET Ids /\ a.filter \in Filters
        /\ a.retrieveVector \in BOOLEAN /\ a.outputFields \in SUBSET Keys
        /\ a.offset \in Int /\ a.limit \in Int
    BY <1>5 DEF QueryArguments
  <2>2. Request(a) = [op |-> "query", filter |-> a.filter,
                      retrieveVector |-> a.retrieveVector,
                      outputFields |-> a.outputFields, limit |-> a.limit,
                      consistency |-> consistency, ids |-> a.ids,
                      offset |-> a.offset, items |-> 0]
    BY <2>1 DEF Request, QueryRequest, Reading
  <2>3. Request(a) \in QueryRequests
    BY <2>1, <2>2 DEF QueryRequests
  <2> QED
    BY <2>3 DEF Requests
<1>6. CASE a \in SearchArguments
  <2>1. /\ a.op = "search" /\ a.items \in Nat /\ a.filter \in Filters
        /\ a.retrieveVector \in BOOLEAN /\ a.outputFields \in SUBSET Keys
        /\ a.limit \in Int
    BY <1>6 DEF SearchArguments
  <2>2. Request(a) = [op |-> "search", filter |-> a.filter,
                      retrieveVector |-> a.retrieveVector,
                      outputFields |-> a.outputFields, limit |-> a.limit % Width,
                      consistency |-> consistency, ids |-> {},
                      offset |-> 0, items |-> a.items]
    BY <2>1 DEF Request, SearchRequest, Reading
  <2>3. a.limit % Width \in 0..Width - 1
    BY <2>1, WidthAssumption, SMT
  <2>4. Request(a) \in SearchRequests
    BY <2>1, <2>2, <2>3 DEF SearchRequests
  <2> QED
    BY <2>4 DEF Requests
<1>7. CASE a \in CountArguments
  <2>1. a.op = "count" /\ a.filter \in Filters
    BY <1>7 DEF CountArguments
  <2>2. Request(a) = [op |-> "count", filter |-> a.filter, consistency |-> ""]
    BY <2>1 DEF Request, CountRequest
  <2>3. Request(a) \in CountRequests
    <3>1. PICK none : none = ""
      OBVIOUS
    <3>2. Request(a) = [op |-> "count", filter |-> a.filter, consistency |-> none]
      BY <2>2, <3>1
    <3>3. CountRequests = [op: {"count"}, filter: Filters, consistency: {none}]
      BY <3>1 DEF CountRequests
    <3> QED
      BY <2>1, <3>2, <3>3
  <2> QED
    BY <2>3 DEF Requests
<1> QED
  BY <1>1, <1>2, <1>3, <1>4, <1>5, <1>6, <1>7 DEF AllArguments

\* The documents the server shows of a version.
LEMMA ShownGroup ==
    ASSUME NEW store \in Stores, NEW ids, NEW filter, NEW q,
           NEW page \in SUBSET Selected(store, ids, filter)
    PROVE  [d \in page |-> Shown(store[d], q)] \in ProtoDocuments
<1>1. ASSUME NEW d \in page PROVE d \in Ids /\ Shown(store[d], q) \in ProtoDocument
  BY ShownIs DEF Selected, Stores
<1> QED
  BY <1>1 DEF ProtoDocuments

LEMMA ServerEffect ==
    ASSUME IInv, NEW c \in Calls,
           \/ ServerUpserts(c) \/ ServerUpdates(c)
           \/ \E gone \in SUBSET Ids : ServerDeletes(c, gone)
           \/ ServerQueries(c) \/ ServerSearches(c) \/ ServerCounts(c)
    PROVE  \E store \in Stores : \E op, reply :
              Executes(c, op, store, reply) /\ Effect(c, store, reply)
<1>1. Current \in Stores
  BY CurrentIsStore DEF IInv
<1>2. CASE ServerUpserts(c)
  <2> DEFINE documents == request[c].documents
             store == Overwriting(documents)
             reply == [affectedCount |-> Cardinality(DOMAIN documents)]
  <2>1. Executes(c, "upsert", store, reply)
    BY <1>2 DEF ServerUpserts, Overwriting
  <2>2. /\ args[c] \in Arguments /\ args[c].op = "upsert"
        /\ \A ops : Is(c, ops) <=> "upsert" \in ops
        /\ documents = [d \in DOMAIN args[c].documents |-> ToProto(args[c].documents[d])]
    BY <2>1, ExecutedCall DEF Carries
  <2>3. store \in Stores
    BY <2>2, UpsertedStore DEF IInv
  <2>4. DOMAIN documents = DOMAIN args[c].documents /\ DOMAIN documents \subseteq Ids
    BY <2>2, ArgumentTypes
  <2>5. Upserts(args[c], Current, store)
    BY <2>2, <2>4 DEF Upserts, Overwriting
  <2>6. reply.affectedCount \in Nat
    BY <2>4, IdsAreFinite
  <2>7. Effect(c, store, reply)
    BY <2>2, <2>5, <2>6 DEF Effect, Writes, Answers
  <2> QED
    BY <2>1, <2>3, <2>7
<1>3. CASE ServerUpdates(c)
  <2> DEFINE selected == Selected(Current, request[c].ids, request[c].filter)
             store == Merging(selected, request[c].update)
             reply == [affectedCount |-> Cardinality(selected)]
  <2>1. Executes(c, "update", store, reply)
    BY <1>3 DEF ServerUpdates, Merging
  <2>2. /\ args[c] \in Arguments /\ args[c].op = "update"
        /\ \A ops : Is(c, ops) <=> "update" \in ops
        /\ Carries(request[c], args[c])
    BY <2>1, ExecutedCall
  <2>3. store \in Stores
    <3>1. /\ request[c].update = ToProto(args[c].change)
          /\ selected = Selected(Current, args[c].ids, args[c].filter)
      BY <2>2 DEF Carries
    <3> QED
      BY <2>2, <3>1, UpdatedStore DEF IInv
  <2>4. reply.affectedCount \in Nat
    BY IdsAreFinite DEF Selected
  <2>5. Effect(c, store, reply)
    BY <2>2, <2>4 DEF Effect, Writes, Answers
  <2> QED
    BY <2>1, <2>3, <2>5
<1>4. CASE \E gone \in SUBSET Ids : ServerDeletes(c, gone)
  <2> PICK gone \in SUBSET Ids : ServerDeletes(c, gone)
    BY <1>4
  <2> DEFINE reply == [affectedCount |-> Cardinality(gone)]
  <2>1. Executes(c, "dele", Deleting(gone), reply)
    BY DEF ServerDeletes, Deleting
  <2>2. \A ops : Is(c, ops) <=> "dele" \in ops
    BY <2>1, ExecutedCall
  <2>3. Deleting(gone) \in Stores
    BY DeletedStore DEF IInv
  <2>4. reply.affectedCount \in Nat
    BY IdsAreFinite
  <2>5. Effect(c, Deleting(gone), reply)
    BY <2>2, <2>4 DEF Effect, Writes, Answers
  <2> QED
    BY <2>1, <2>3, <2>5
<1>5. CASE ServerQueries(c)
  <2> DEFINE q == request[c]
  <2>1. PICK n \in Visible(c) :
          LET selected == Selected(versions[n], q.ids, q.filter)
          IN  \E page \in Page(selected, q.offset, q.limit) :
                 Executes(c, "query", Current,
                    [documents |-> [d \in page |-> Shown(versions[n][d], q)],
                     count |-> Cardinality(selected)])
    BY <1>5 DEF ServerQueries
  <2> DEFINE selected == Selected(versions[n], q.ids, q.filter)
  <2>2. PICK page \in Page(selected, q.offset, q.limit) :
          Executes(c, "query", Current,
             [documents |-> [d \in page |-> Shown(versions[n][d], q)],
              count |-> Cardinality(selected)])
    BY <2>1
  <2> DEFINE reply == [documents |-> [d \in page |-> Shown(versions[n][d], q)],
                       count |-> Cardinality(selected)]
  <2>3. \A ops : Is(c, ops) <=> "query" \in ops
    BY <2>2, ExecutedCall
  <2>4. q.consistency = "strongConsistency" => versions[n] = Current
    BY <2>1 DEF Visible, Current
  <2>5. QueryAnswer(reply, q, versions[n])
    BY <2>2 DEF QueryAnswer
  <2>6. reply \in Answers
    <3>1. n \in 1..Len(versions)
      BY CurrentIsStore, <2>1 DEF Visible, IInv
    <3>2. versions[n] \in Stores /\ selected \in SUBSET Ids
      BY <3>1 DEF IInv, Shape, Selected
    <3>3. page \in SUBSET selected
      BY <2>2 DEF Page, Firsts
    <3>4. [d \in page |-> Shown(versions[n][d], q)] \in ProtoDocuments
      BY <3>2, <3>3, ShownGroup
    <3> QED
      BY <3>2, <3>4, IdsAreFinite DEF Answers
  <2>7. Effect(c, Current, reply)
    BY <2>3, <2>4, <2>5, <2>6 DEF Effect, Writes
  <2> QED
    BY <1>1, <2>2, <2>7
<1>6. CASE ServerSearches(c)
  <2> DEFINE q == request[c]
  <2>1. PICK n \in Visible(c) :
          LET selected == Selected(versions[n], q.ids, q.filter)
          IN  \E found \in [1..q.items -> SUBSET selected] :
                 Executes(c, "search", Current,
                    [results |-> [i \in 1..q.items |->
                                    [d \in found[i] |-> Shown(versions[n][d], q)]]])
    BY <1>6 DEF ServerSearches
  <2> DEFINE selected == Selected(versions[n], q.ids, q.filter)
  <2>2. PICK found \in [1..q.items -> SUBSET selected] :
          Executes(c, "search", Current,
             [results |-> [i \in 1..q.items |->
                             [d \in found[i] |-> Shown(versions[n][d], q)]]])
    BY <2>1
  <2> DEFINE groups == [i \in 1..q.items |->
                          [d \in found[i] |-> Shown(versions[n][d], q)]]
             reply == [results |-> groups]
  <2> HIDE DEF reply
  <2>3. /\ \A ops : Is(c, ops) <=> "search" \in ops
        /\ q.items \in Nat
    <3>1. /\ args[c] \in Arguments /\ args[c].op = "search"
          /\ \A ops : Is(c, ops) <=> "search" \in ops
          /\ Carries(q, args[c])
      BY <2>2, ExecutedCall
    <3> QED
      BY <3>1, ArgumentTypes DEF Carries
  <2>4. reply \in Answers
    <3>1. n \in 1..Len(versions)
      BY CurrentIsStore, <2>1 DEF Visible, IInv
    <3>2. versions[n] \in Stores
      BY <3>1 DEF IInv, Shape
    <3>3. ASSUME NEW i \in 1..q.items
          PROVE  [d \in found[i] |-> Shown(versions[n][d], q)] \in ProtoDocuments
      BY <3>2, ShownGroup
    <3>4. groups \in [1..q.items -> ProtoDocuments]
      BY <3>3
    <3> HIDE DEF groups
    <3>5. groups \in Seq(ProtoDocuments)
      BY <2>3, <3>4
    <3> QED
      BY <3>5 DEF Answers, reply
  <2>5. Effect(c, Current, reply)
    BY <2>3, <2>4 DEF Effect, Writes
  <2> QED
    BY <1>1, <2>2, <2>5 DEF reply
<1>7. CASE ServerCounts(c)
  <2>1. PICK n \in Visible(c) :
          Executes(c, "count", Current,
             [count |-> Cardinality(Selected(versions[n], {}, request[c].filter))])
    BY <1>7 DEF ServerCounts
  <2> DEFINE reply == [count |-> Cardinality(Selected(versions[n], {}, request[c].filter))]
  <2>2. \A ops : Is(c, ops) <=> "count" \in ops
    BY <2>1, ExecutedCall
  <2>3. reply \in Answers
    BY IdsAreFinite DEF Answers, Selected
  <2>4. Effect(c, Current, reply)
    BY <2>2, <2>3 DEF Effect, Writes
  <2> QED
    BY <1>1, <2>1, <2>4
<1> QED
  BY <1>2, <1>3, <1>4, <1>5, <1>6, <1>7

\* What a step of the server adds, and what it leaves.
LEMMA Added ==
    ASSUME IInv, NEW c \in Calls, NEW op, NEW store \in Stores, NEW reply,
           Executes(c, op, store, reply)
    PROVE  /\ Len(effects) \in Nat /\ Len(versions) = Len(effects) + 1
           /\ Len(effects') = Len(effects) + 1
           /\ effects'[Len(effects) + 1] = c
           /\ \A i \in 1..Len(effects) : /\ effects'[i] = effects[i]
                                         /\ effects[i] \in Calls
                                         /\ effects[i] # c
                                         /\ answer'[effects[i]] = answer[effects[i]]
           /\ Len(versions') = Len(versions) + 1
           /\ versions'[Len(versions) + 1] = store
           /\ \A i \in 1..Len(versions) : versions'[i] = versions[i]
           /\ answer'[c] = reply
           /\ UNCHANGED <<consistency, outcome, args, request, result, before>>
<1>1. /\ ~Remote!HasEffect(c)
      /\ effects' = Append(effects, c)
      /\ versions' = Append(versions, store)
      /\ answer' = [answer EXCEPT ![c] = reply]
      /\ UNCHANGED <<consistency, outcome, args, request, result, before>>
  BY DEF Executes, Remote!TakeEffect
<1>2. /\ effects \in Seq(Calls) /\ versions \in Seq(Stores)
      /\ Len(versions) = Len(effects) + 1 /\ Len(effects) \in Nat
  BY DEF IInv, Shape
<1>3. /\ Len(effects') = Len(effects) + 1
      /\ effects'[Len(effects) + 1] = c
      /\ \A i \in 1..Len(effects) : effects'[i] = effects[i] /\ effects[i] \in Calls
  BY <1>1, <1>2, AppendProperties
<1>4. /\ Len(versions') = Len(versions) + 1
      /\ versions'[Len(versions) + 1] = store
      /\ \A i \in 1..Len(versions) : versions'[i] = versions[i]
  BY <1>1, <1>2, AppendProperties
<1>5. \A i \in 1..Len(effects) : effects[i] # c
  BY <1>1 DEF Remote!HasEffect
<1>6. /\ answer'[c] = reply
      /\ \A i \in 1..Len(effects) : answer'[effects[i]] = answer[effects[i]]
  BY <1>1, <1>3, <1>5 DEF IInv, Shape
<1> QED
  BY <1>1, <1>2, <1>3, <1>4, <1>5, <1>6

LEMMA ReadServerStep ==
    ASSUME IInv, AnswerInv, ReadInv, NEW c \in Calls,
           \/ ServerUpserts(c) \/ ServerUpdates(c)
           \/ \E gone \in SUBSET Ids : ServerDeletes(c, gone)
           \/ ServerQueries(c) \/ ServerSearches(c) \/ ServerCounts(c)
    PROVE  ReadInv'
<1> PICK store \in Stores : \E op, reply :
            Executes(c, op, store, reply) /\ Effect(c, store, reply)
  BY ServerEffect
<1> PICK op, reply : Executes(c, op, store, reply) /\ Effect(c, store, reply)
  OBVIOUS
<1> DEFINE N == Len(effects)
<1>1. /\ N \in Nat /\ Len(versions) = N + 1 /\ Len(effects') = N + 1
      /\ effects'[N + 1] = c
      /\ \A i \in 1..N : /\ effects'[i] = effects[i] /\ effects[i] \in Calls
                         /\ effects[i] # c
                         /\ answer'[effects[i]] = answer[effects[i]]
      /\ Len(versions') = N + 2 /\ versions'[N + 2] = store
      /\ \A i \in 1..N + 1 : versions'[i] = versions[i]
      /\ answer'[c] = reply
      /\ UNCHANGED <<consistency, outcome, args, request, result, before>>
  BY Added
<1>2. versions[N + 1] = Current
  BY <1>1 DEF Current
<1> HIDE DEF N
<1>3. \A n \in 1..N + 1 : n \in 1..N \/ n = N + 1
  BY <1>1
<1>4. \A b, ops : Is(b, ops)' <=> Is(b, ops)
  BY <1>1 DEF Is
<1>5. Ordered'
  <2>1. \A b \in Calls : before'[b] \subseteq Acknowledged'
    BY <1>1 DEF ReadInv, Ordered, Acknowledged
  <2>2. ASSUME NEW n \in 1..N + 1, NEW b \in before[effects'[n]]
        PROVE  \E m \in 1..n - 1 : effects'[m] = b
    <3>1. CASE n \in 1..N
      <4>1. effects'[n] = effects[n] /\ n \in 1..Len(effects)
        BY <1>1, <3>1 DEF N
      <4>2. PICK m \in 1..n - 1 : effects[m] = b
        BY <2>2, <4>1 DEF ReadInv, Ordered
      <4> QED
        BY <1>1, <3>1, <4>2
    <3>2. CASE n = N + 1
      <4>1. b \in Acknowledged
        BY <1>1, <2>2, <3>2 DEF ReadInv, Ordered
      <4>2. Remote!HasEffect(b)
        BY <4>1 DEF AnswerInv
      <4>3. PICK m \in 1..N : effects[m] = b
        BY <4>2 DEF Remote!HasEffect, N
      <4> QED
        BY <1>1, <3>2, <4>3
    <3> QED
      BY <1>3, <3>1, <3>2
  <2> QED
    BY <1>1, <2>1, <2>2 DEF Ordered
<1>6. Unchanged'
  <2> SUFFICES ASSUME NEW n \in 1..N + 2, NEW m \in 1..n, Quiet(m, n)'
               PROVE  versions'[m] = versions'[n]
    BY <1>1 DEF Unchanged
  <2>1. \A i \in m..n - 1 : ~Is(effects'[i], Writes)
    BY <1>4 DEF Quiet
  <2>2. CASE n \in 1..N + 1
    <3>1. \A i \in m..n - 1 : i \in 1..N
      BY <1>1, <2>2
    <3>2. Quiet(m, n)
      BY <1>1, <2>1, <3>1 DEF Quiet
    <3>3. versions[m] = versions[n]
      BY <1>1, <2>2, <3>2 DEF ReadInv, Unchanged
    <3> QED
      BY <1>1, <2>2, <3>3
  <2>3. CASE n = N + 2 /\ m = N + 2
    BY <2>3
  <2>4. CASE n = N + 2 /\ m \in 1..N + 1
    <3>1. ~Is(c, Writes)
      BY <1>1, <2>1, <2>4
    <3>2. versions'[n] = Current
      BY <1>1, <2>4, <3>1 DEF Effect
    <3>3. \A i \in m..(N + 1) - 1 : i \in m..n - 1 /\ i \in 1..N
      BY <1>1, <2>4
    <3>4. Quiet(m, N + 1)
      BY <1>1, <2>1, <3>3 DEF Quiet
    <3>5. versions[m] = versions[N + 1]
      BY <1>1, <2>4, <3>4 DEF ReadInv, Unchanged
    <3> QED
      BY <1>1, <1>2, <2>4, <3>2, <3>5
  <2> QED
    BY <1>1, <2>2, <2>3, <2>4
<1>7. Upserted'
  <2> SUFFICES ASSUME NEW n \in 1..N + 1, Is(effects'[n], {"upsert"})
               PROVE  Upserts(args[effects'[n]], versions'[n], versions'[n + 1])
    BY <1>1 DEF Upserted, Is
  <2>1. CASE n \in 1..N
    <3>1. n \in 1..N + 1 /\ n + 1 \in 1..N + 1 /\ n \in 1..Len(effects)
      BY <1>1, <2>1 DEF N
    <3>2. /\ effects'[n] = effects[n] /\ versions'[n] = versions[n]
          /\ versions'[n + 1] = versions[n + 1]
      BY <1>1, <2>1, <3>1
    <3> QED
      BY <3>1, <3>2 DEF ReadInv, Upserted
  <2>2. CASE n = N + 1
    <3>1. effects'[n] = c /\ versions'[n] = Current /\ versions'[n + 1] = store
      BY <1>1, <1>2, <2>2
    <3> QED
      BY <3>1 DEF Effect
  <2> QED
    BY <1>3, <2>1, <2>2
<1>8. StrongAnswers'
  <2>1. \A b \in Calls : Is(b, {"query"})' => request'[b].consistency = consistency'
    BY <1>1, <1>4 DEF ReadInv, StrongAnswers
  <2>2. ASSUME consistency = "strongConsistency",
               NEW n \in 1..N + 1, Is(effects'[n], {"query"})
        PROVE  QueryAnswer(answer'[effects'[n]], request[effects'[n]], versions'[n])
    <3>1. CASE n \in 1..N
      <4>1. n \in 1..N + 1 /\ n \in 1..Len(effects)
        BY <1>1, <3>1 DEF N
      <4>2. /\ effects'[n] = effects[n] /\ versions'[n] = versions[n]
            /\ answer'[effects[n]] = answer[effects[n]]
        BY <1>1, <3>1, <4>1
      <4> QED
        BY <2>2, <4>1, <4>2 DEF ReadInv, StrongAnswers
    <3>2. CASE n = N + 1
      <4>1. effects'[n] = c /\ versions'[n] = Current /\ answer'[c] = reply
        BY <1>1, <1>2, <3>2
      <4>2. request[c].consistency = "strongConsistency"
        BY <2>2, <4>1 DEF ReadInv, StrongAnswers
      <4> QED
        BY <2>2, <4>1, <4>2 DEF Effect
    <3> QED
      BY <1>3, <3>1, <3>2
  <2>3. ASSUME consistency' = "strongConsistency",
               NEW n \in 1..Len(effects'), Is(effects[n], {"query"})'
        PROVE  QueryAnswer(answer'[effects'[n]], request'[effects'[n]], versions'[n])
    BY <1>1, <2>2, <2>3 DEF Is
  <2> QED
    BY <2>1, <2>3 DEF StrongAnswers
<1>9. Counted'
  <2> SUFFICES ASSUME NEW n \in 1..N + 1, Is(effects'[n], Writes)
               PROVE  answer'[effects'[n]].affectedCount \in Nat
    BY <1>1, <1>4 DEF Counted
  <2>1. CASE n \in 1..N
    BY <1>1, <2>1 DEF ReadInv, Counted, N
  <2>2. CASE n = N + 1
    BY <1>1, <2>2 DEF Effect
  <2> QED
    BY <1>3, <2>1, <2>2
<1>10. Fresh'
  <2>1. answer' = [answer EXCEPT ![c] = reply] /\ reply \in Answers
    BY DEF Executes, Effect
  <2> QED
    BY <1>1, <2>1 DEF ReadInv, Fresh, Acknowledged
<1> QED
  BY <1>5, <1>6, <1>7, <1>8, <1>9, <1>10 DEF ReadInv

LEMMA ReadInvokeStep ==
    ASSUME IInv, AnswerInv, ReadInv, NEW c \in Calls, NEW a \in Arguments, Invoke(c, a)
    PROVE  ReadInv'
<1>1. /\ outcome[c] = "unissued"
      /\ outcome' = [outcome EXCEPT ![c] = "pending"]
      /\ args' = [args EXCEPT ![c] = a]
      /\ request' = [request EXCEPT ![c] = Request(a)]
      /\ before' = [before EXCEPT ![c] = Acknowledged]
      /\ UNCHANGED <<consistency, versions, effects, answer, result>>
  BY DEF Invoke, Remote!Issue
<1>2. /\ args'[c] = a /\ request'[c] = Request(a) /\ before'[c] = Acknowledged
      /\ \A b \in Calls \ {c} : /\ args'[b] = args[b] /\ request'[b] = request[b]
                               /\ before'[b] = before[b]
  BY <1>1 DEF IInv, Shape, ReadInv, Fresh
<1>3. Acknowledged' = Acknowledged /\ Acknowledged \subseteq Calls
  BY <1>1 DEF Acknowledged, IInv, Shape
<1>4. \A n \in 1..Len(effects) : effects[n] \in Calls \ {c}
  BY <1>1 DEF AnswerInv, Remote!HasEffect, IInv, Shape
<1>5. Ordered'
  <2>1. \A b \in Calls : before'[b] \subseteq Acknowledged'
    BY <1>2, <1>3 DEF ReadInv, Ordered
  <2>2. \A n \in 1..Len(effects) : \A b \in before'[effects[n]] :
           \E m \in 1..n - 1 : effects[m] = b
    BY <1>2, <1>4 DEF ReadInv, Ordered
  <2> QED
    BY <1>1, <2>1, <2>2 DEF Ordered
<1>6. Unchanged'
  <2> SUFFICES ASSUME NEW n \in 1..Len(versions), NEW m \in 1..n,
                      \A i \in m..n - 1 : ~Is(effects[i], Writes)'
               PROVE  versions[m] = versions[n]
    BY <1>1 DEF Unchanged, Quiet
  <2>1. \A i \in m..n - 1 : i \in 1..Len(effects)
    BY DEF IInv, Shape
  <2>2. Quiet(m, n)
    BY <1>1, <1>2, <1>4, <2>1 DEF Quiet, Is
  <2> QED
    BY <2>2 DEF ReadInv, Unchanged
<1>7. Upserted'
  BY <1>1, <1>2, <1>4 DEF ReadInv, Upserted, Is
<1>8. StrongAnswers'
  <2>1. \A b \in Calls \ {c} : Is(b, {"query"})' =>
           request'[b].consistency = consistency'
    BY <1>1, <1>2 DEF ReadInv, StrongAnswers, Is
  <2>2. a.op = "query" => Request(a).consistency = consistency
    BY DEF Request, QueryRequest, Reading
  <2>3. Is(c, {"query"})' => request'[c].consistency = consistency'
    BY <1>1, <1>2, <2>2 DEF Is
  <2>4. ASSUME consistency = "strongConsistency",
               NEW n \in 1..Len(effects), Is(effects[n], {"query"})'
        PROVE  QueryAnswer(answer[effects[n]], request'[effects[n]], versions[n])
    <3>1. Is(effects[n], {"query"}) /\ request'[effects[n]] = request[effects[n]]
      BY <1>1, <1>2, <1>4, <2>4 DEF Is
    <3> QED
      BY <2>4, <3>1 DEF ReadInv, StrongAnswers
  <2> QED
    BY <1>1, <2>1, <2>3, <2>4 DEF StrongAnswers
<1>9. Counted'
  BY <1>1, <1>2, <1>4 DEF ReadInv, Counted, Is
<1>10. Fresh'
  <2>1. Request(a) \in Requests
    BY RequestType DEF ReadInv, Fresh
  <2> QED
    BY <1>1, <1>3, <2>1 DEF ReadInv, Fresh
<1> QED
  BY <1>5, <1>6, <1>7, <1>8, <1>9, <1>10 DEF ReadInv

LEMMA ReadHandledStep ==
    ASSUME IInv, AnswerInv, ReadInv, NEW c \in Calls, Handled(c) \/ Fail(c)
    PROVE  ReadInv'
<1>1. /\ before' = before
      /\ \/ outcome' = [outcome EXCEPT ![c] = "ok"] /\ \E r : result' = [result EXCEPT ![c] = r]
         \/ /\ outcome[c] = "pending" /\ outcome' = [outcome EXCEPT ![c] = "error"]
            /\ result' = result
  <2>1. ASSUME NEW op, NEW written, Return(c, op, written)
        PROVE  /\ before' = before /\ outcome' = [outcome EXCEPT ![c] = "ok"]
               /\ result' = [result EXCEPT ![c] = written]
    BY <2>1 DEF Return, Remote!Acknowledge
  <2>2. Handled(c) => \E op, written : Return(c, op, written)
    BY DEF Handled, upsert, update, dele, query, search, count
  <2> QED
    BY <2>1, <2>2 DEF Fail, Remote!GiveUp
<1>2. UNCHANGED <<consistency, args, request, versions, effects, answer>>
  BY HandledStep
<1>3. Acknowledged \subseteq Acknowledged'
  BY <1>1 DEF Acknowledged, IInv, Shape
<1>4. Ordered'
  <2>1. \A b \in Calls : before'[b] \subseteq Acknowledged'
    BY <1>1, <1>3 DEF ReadInv, Ordered
  <2>2. \A n \in 1..Len(effects') : \A b \in before'[effects'[n]] :
           \E m \in 1..n - 1 : effects'[m] = b
    BY <1>1, <1>2 DEF ReadInv, Ordered
  <2> QED
    BY <2>1, <2>2 DEF Ordered
<1>5. Unchanged' /\ Upserted' /\ StrongAnswers' /\ Counted'
  BY <1>2 DEF ReadInv, Unchanged, Quiet, Upserted, StrongAnswers, Counted, Is
<1>6. Fresh'
  <2>1. ASSUME NEW b \in Calls \ Acknowledged'
        PROVE  result'[b] = None
    <3>1. b \notin Acknowledged
      BY <1>3
    <3>2. result[b] = None
      BY <3>1 DEF ReadInv, Fresh
    <3>3. outcome'[b] # "ok"
      BY DEF Acknowledged
    <3>4. b = c => result' = result
      BY <1>1, <3>3 DEF IInv, Shape
    <3> QED
      BY <1>1, <3>2, <3>4 DEF IInv, Shape
  <2> QED
    BY <1>1, <1>2, <2>1 DEF ReadInv, Fresh
<1> QED
  BY <1>4, <1>5, <1>6 DEF ReadInv

\* The orders of the calls, the server and the versions go together.
THEOREM ReadInvariance == Spec => []ReadInv
<1>1. Init => ReadInv
  <2> SUFFICES ASSUME Init PROVE ReadInv
    OBVIOUS
  <2>1. /\ effects = <<>> /\ Len(versions) = 1 /\ consistency \in Levels
        /\ before = [c \in Calls |-> {}] /\ result = [c \in Calls |-> None]
        /\ args = [c \in Calls |-> None] /\ request = [c \in Calls |-> None]
        /\ answer = [c \in Calls |-> None]
    BY DEF Init, Remote!Init
  <2>2. Ordered
    BY <2>1 DEF Ordered
  <2>3. Unchanged
    BY <2>1 DEF Unchanged
  <2>4. Upserted /\ StrongAnswers /\ Counted /\ Fresh
    BY <2>1 DEF Upserted, StrongAnswers, Counted, Fresh, Is
  <2> QED
    BY <2>2, <2>3, <2>4 DEF ReadInv
<1>2. ReadInv /\ IInv /\ AnswerInv /\ [Next]_vars => ReadInv'
  <2> SUFFICES ASSUME ReadInv, IInv, AnswerInv, [Next]_vars PROVE ReadInv'
    OBVIOUS
  <2>1. CASE UNCHANGED vars
    BY <2>1 DEF vars, ReadInv, Ordered, Acknowledged, Unchanged, Quiet, Upserted,
                StrongAnswers, Counted, Fresh, Is
  <2>2. ASSUME NEW c \in Calls, NEW a \in Arguments, Invoke(c, a) PROVE ReadInv'
    BY <2>2, ReadInvokeStep
  <2>3. ASSUME NEW c \in Calls,
               \/ ServerUpserts(c) \/ ServerUpdates(c)
               \/ \E gone \in SUBSET Ids : ServerDeletes(c, gone)
               \/ ServerQueries(c) \/ ServerSearches(c) \/ ServerCounts(c)
        PROVE  ReadInv'
    BY <2>3, ReadServerStep
  <2>4. ASSUME NEW c \in Calls, Handled(c) \/ Fail(c) PROVE ReadInv'
    BY <2>4, ReadHandledStep
  <2> QED
    BY <2>1, <2>2, <2>3, <2>4 DEF Next, Handled
<1> QED
  BY <1>1, <1>2, AnswersInvariance, PTL DEF Spec

(***************************************************************************)
(* Types.                                                                  *)
(***************************************************************************)
Groups == UNION {[ids -> Document] : ids \in SUBSET Ids}

LEMMA ShownType ==
    ASSUME NEW x \in Document, NEW q
    PROVE  Shown(x, q) \in Document
<1> DEFINE keys == IF q.outputFields = {} THEN DOMAIN x.fields
                   ELSE q.outputFields \cap DOMAIN x.fields
           shown == [k \in keys |-> x.fields[k]]
           vec == IF q.retrieveVector THEN x.vector ELSE None
<1>1. /\ x.fields \in [DOMAIN x.fields -> Field] /\ DOMAIN x.fields \subseteq Keys
      /\ x.vector \in Vectors \cup {None}
  BY MapsAre DEF Document
<1>2. shown \in Maps(Field)
  BY <1>1, MapsAre
<1>3. Shown(x, q) = [vector |-> vec, fields |-> shown]
  BY <1>1 DEF Shown, Restrict
<1> QED
  BY <1>1, <1>2, <1>3 DEF Document

\* The documents handed out are documents of the SDK.
LEMMA GroupType ==
    ASSUME IInv, AnswerInv, NEW r \in Acknowledged, args[r].op \in {"query", "search"},
           NEW documents \in HandedOut(r), documents = [d \in DOMAIN documents |-> documents[d]]
    PROVE  documents \in Groups
<1>1. PICK n \in 1..Len(versions) : IsOf(answer[r], request[r], versions[n])
  BY ReturnedCall
<1>2. args[r].filter \in Filters
  BY ReturnedCall, ArgumentTypes
<1>3. ASSUME NEW d \in DOMAIN documents
      PROVE  d \in Ids /\ documents[d] \in Document
  <2>1. d \in Meeting(n, args[r].filter) /\ documents[d] = Shown(Seen(n)[d], args[r])
    BY <1>1, GroupsOfVersion
  <2>2. d \in Ids /\ Seen(n)[d] # None
    BY <2>1 DEF Meeting
  <2>3. versions[n] \in Stores /\ Seen(n)[d] = AsSeen(versions[n][d])
    BY <1>2, <2>2, SelectedMeet DEF Seen, AsSeen
  <2>4. Seen(n)[d] \in Document
    BY <2>2, <2>3, FromProtoIs DEF Stores, AsSeen
  <2> QED
    BY <2>1, <2>2, <2>4, ShownType
<1> QED
  BY <1>3 DEF Groups

LEMMA NarrowType ==
    ASSUME NEW n \in Nat
    PROVE  Narrow(n) \in -Half..Half - 1
<1>1. (n + Half) % (2 * Half) \in 0..2 * Half - 1
  BY HalfAssumption, SMT
<1> QED
  BY <1>1, HalfAssumption DEF Narrow

LEMMA ResultType ==
    ASSUME IInv, AnswerInv, ReadInv, NEW r \in Acknowledged
    PROVE  result[r] \in Results
<1>1. /\ r \in Calls /\ Remote!HasEffect(r) /\ args[r] \in Arguments
      /\ Carries(request[r], args[r]) /\ result[r] = Written(r)
      /\ request[r].op = args[r].op
  BY ReturnedCall DEF Carries
<1>2. PICK n \in 1..Len(versions) : IsOf(answer[r], request[r], versions[n])
  BY ReturnedCall
<1>3. \A ops : Is(r, ops) <=> args[r].op \in ops
  BY <1>1, NoArguments DEF Is
<1> DEFINE q == request[r]
           selected == Selected(versions[n], q.ids, q.filter)
<1>4. Cardinality(selected) \in Nat
  BY IdsAreFinite DEF Selected
<1>5. CASE args[r].op = "query"
  <2>1. PICK page : answer[r] = [documents |-> [d \in page |-> Shown(versions[n][d], q)],
                                 count |-> Cardinality(selected)]
    BY <1>1, <1>2, <1>5 DEF IsOf, QueryAnswer
  <2> DEFINE documents == Decoded(answer[r].documents)
  <2>2. result[r] = [documents |-> documents, total |-> Cardinality(selected)]
    BY <1>1, <1>5, <2>1 DEF Written
  <2>3. documents \in HandedOut(r)
    BY <1>5, <2>2 DEF HandedOut
  <2>4. documents = [d \in DOMAIN documents |-> documents[d]]
    BY DEF Decoded
  <2>5. documents \in Groups
    BY <1>5, <2>3, <2>4, GroupType
  <2> QED
    BY <1>4, <2>2, <2>5 DEF Results, Groups
<1>6. CASE args[r].op = "search"
  <2>1. PICK found : answer[r] = [results |-> [i \in 1..q.items |->
                                     [d \in found[i] |-> Shown(versions[n][d], q)]]]
    BY <1>1, <1>2, <1>6 DEF IsOf, SearchAnswer
  <2> DEFINE groups == [i \in 1..q.items |-> Decoded(answer[r].results[i])]
  <2>2. q.items \in Nat
    BY <1>1, <1>6, ArgumentTypes DEF Carries
  <2>3. result[r] = [documents |-> groups]
    <3>1. DOMAIN answer[r].results = 1..q.items
      BY <2>1
    <3>2. result[r] = [documents |-> [i \in DOMAIN answer[r].results |->
                                        Decoded(answer[r].results[i])]]
      BY <1>1, <1>6 DEF Written
    <3> QED
      BY <3>1, <3>2
  <2>4. ASSUME NEW i \in 1..q.items PROVE groups[i] \in Groups
    <3>1. groups[i] \in HandedOut(r)
      BY <1>6, <2>3 DEF HandedOut
    <3>2. groups[i] = [d \in DOMAIN groups[i] |-> groups[i][d]]
      BY DEF Decoded
    <3> QED
      BY <1>6, <3>1, <3>2, GroupType
  <2>5. groups \in Seq(Groups)
    <3>1. groups \in [1..q.items -> Groups]
      BY <2>4
    <3> HIDE DEF groups
    <3> QED
      BY <2>2, <3>1
  <2> QED
    BY <2>3, <2>5 DEF Results, Groups
<1>7. CASE args[r].op = "count"
  <2>1. answer[r] = [count |-> Cardinality(Selected(versions[n], {}, q.filter))]
    BY <1>1, <1>2, <1>7 DEF IsOf, CountAnswer
  <2>2. answer[r].count \in Nat
    BY <2>1, IdsAreFinite DEF Selected
  <2> QED
    BY <1>1, <1>7, <2>2 DEF Written, Results
<1>8. CASE args[r].op \in Writes
  <2>1. PICK m \in 1..Len(effects) : effects[m] = r
    BY <1>1 DEF Remote!HasEffect
  <2>2. answer[r].affectedCount \in Nat
    BY <1>3, <1>8, <2>1 DEF ReadInv, Counted
  <2>3. result[r] = [affectedCount |-> Narrow(answer[r].affectedCount)]
    BY <1>1, <1>8 DEF Written, Writes
  <2> QED
    BY <2>2, <2>3, NarrowType DEF Results
<1>9. args[r].op \in Writes \cup {"query", "search", "count"}
  BY <1>1, ArgumentTypes DEF Writes
<1> QED
  BY <1>5, <1>6, <1>7, <1>8, <1>9

\* Whatever the arguments, every request and every response is one of the proto's,
\* in particular without an empty array, and what is handed out has the types of
\* the SDK: no affectedCount leaves an int.
THEOREM DocumentTypes == Spec => []TypeOK
<1>1. IInv /\ AnswerInv /\ ReadInv => TypeOK
  <2> SUFFICES ASSUME IInv, AnswerInv, ReadInv PROVE TypeOK
    OBVIOUS
  <2>1. /\ consistency \in Levels /\ before \in [Calls -> SUBSET Calls]
        /\ args \in [Calls -> Arguments \cup {None}]
        /\ request \in [Calls -> Requests \cup {None}]
        /\ answer \in [Calls -> Answers \cup {None}]
        /\ Len(versions) = Len(effects) + 1
    BY DEF ReadInv, Fresh, IInv, Shape
  <2>2. \A n \in 1..Len(versions) : versions[n] \in [Ids -> ProtoDocument \cup {None}]
    BY DEF IInv, Shape, Stores
  <2>3. \A c \in Calls : IF c \in Acknowledged THEN result[c] \in Results
                         ELSE result[c] = None
    BY ResultType DEF ReadInv, Fresh
  <2> QED
    BY <2>1, <2>2, <2>3 DEF TypeOK
<1> QED
  BY <1>1, ReadInvariance, AnswersInvariance, PTL

(***************************************************************************)
(* Strong queries.                                                         *)
(***************************************************************************)

\* A query without limit and offset gets every document selected.
LEMMA WholePage ==
    ASSUME NEW selected \in SUBSET Ids
    PROVE  Page(selected, 0, 0) = {selected}
<1>1. IsFiniteSet(selected) /\ Cardinality(selected) \in Nat
  BY IdsAssumption, FS_Subset, FS_CardinalityType
<1>2. CASE Cardinality(selected) = 0
  <2>1. selected = {}
    BY <1>1, <1>2, FS_EmptySet
  <2> QED
    BY <1>2, <2>1 DEF Page
<1>3. CASE Cardinality(selected) # 0
  BY <1>1, <1>3 DEF Page, Firsts
<1> QED
  BY <1>2, <1>3

\* The write and the strong query that reads it are in the server's order, and
\* nothing is written between the two if what was written else was acknowledged
\* before the write was made or made after the query was acknowledged.
LEMMA NothingBetween ==
    ASSUME IInv, AnswerInv, ReadInv, NEW r \in Acknowledged, NEW w \in before[r],
           \A x \in Calls \ {w} : Is(x, Writes) => x \in before[w] \/ r \in before[x]
    PROVE  \E n \in 1..Len(effects) : \E m \in 1..n - 1 :
              /\ effects[n] = r /\ effects[m] = w
              /\ versions[m + 1] = versions[n]
<1>1. PICK n \in 1..Len(effects) : effects[n] = r
  BY DEF AnswerInv, Remote!HasEffect
<1>2. PICK m \in 1..n - 1 : effects[m] = w
  BY <1>1 DEF ReadInv, Ordered
<1>3. /\ Len(effects) \in Nat /\ Len(versions) = Len(effects) + 1
      /\ \A i \in 1..Len(effects) : effects[i] \in Calls
      /\ \A i, j \in 1..Len(effects) : effects[i] = effects[j] => i = j
  BY DEF IInv, Shape, AnswerInv
<1>4. ASSUME NEW i \in m + 1..n - 1, Is(effects[i], Writes)
      PROVE  FALSE
  <2>1. i \in 1..Len(effects) /\ i # m /\ m \in 1..Len(effects)
    BY <1>3
  <2>2. effects[i] \in Calls \ {w}
    BY <1>2, <1>3, <2>1
  <2>3. CASE effects[i] \in before[w]
    <3>1. PICK j \in 1..m - 1 : effects[j] = effects[i]
      BY <1>2, <2>1, <2>3 DEF ReadInv, Ordered
    <3>2. j \in 1..Len(effects) /\ j # i
      BY <1>3
    <3> QED
      BY <1>3, <2>1, <3>1, <3>2
  <2>4. CASE r \in before[effects[i]]
    <3>1. PICK j \in 1..i - 1 : effects[j] = r
      BY <2>1, <2>4 DEF ReadInv, Ordered
    <3>2. j \in 1..Len(effects) /\ j # n
      BY <1>3
    <3> QED
      BY <1>1, <1>3, <3>1, <3>2
  <2> QED
    BY <1>4, <2>2, <2>3, <2>4
<1>5. Quiet(m + 1, n)
  BY <1>4 DEF Quiet
<1>6. n \in 1..Len(versions) /\ m + 1 \in 1..n
  BY <1>3
<1>7. versions[m + 1] = versions[n]
  BY <1>5, <1>6 DEF ReadInv, Unchanged
<1> QED
  BY <1>1, <1>2, <1>7

\* What the program reads of a document it upserted.
LEMMA ReadsUpserted ==
    ASSUME NEW old \in ProtoDocument \cup {None}, NEW x \in Document, NEW a
    PROVE  LET given == x.fields
               asked == IF a.outputFields = {} THEN DOMAIN given
                        ELSE DOMAIN given \cap a.outputFields
           IN  Shown(FromProto(Overwrite(old, ToProto(x))), a).fields
                  = [k \in asked |-> Readable(given[k])]
<1> DEFINE seen == FromProto(Overwrite(old, ToProto(x)))
<1>1. seen = Overwrite(AsSeen(old), ReadBack(x))
  BY Overwritten
<1>2. seen.fields = [k \in DOMAIN x.fields |-> Readable(x.fields[k])]
  BY <1>1 DEF Overwrite, ReadBack
<1> HIDE DEF seen
<1>3. Shown(seen, a).fields =
        IF a.outputFields = {} THEN seen.fields
        ELSE Restrict(seen.fields, a.outputFields \cap DOMAIN seen.fields)
  BY DEF Shown
<1>4. CASE a.outputFields = {}
  BY <1>2, <1>3, <1>4 DEF seen
<1>5. CASE a.outputFields # {}
  BY <1>2, <1>3, <1>5 DEF seen, Restrict
<1> QED
  BY <1>4, <1>5

\* A query with strong consistency that returned 0 hands out what was upserted by
\* a call that returned 0 before, unless something else was written at the same
\* time or since; whatever else is lost, late or answered in another order.
THEOREM ReadsTheLastWrite == Spec => []ReadsLastWrite
<1>1. IInv /\ AnswerInv /\ ReadInv => ReadsLastWrite
  <2> SUFFICES ASSUME IInv, AnswerInv, ReadInv,
                      consistency = "strongConsistency",
                      NEW r \in Acknowledged, Is(r, {"query"}),
                      NEW w \in before[r], Is(w, {"upsert"}),
                      args[r].filter = None, args[r].ids = {},
                      args[r].limit = 0, args[r].offset = 0,
                      \A x \in Calls \ {w} : Is(x, Writes) =>
                         x \in before[w] \/ r \in before[x],
                      NEW d \in DOMAIN args[w].documents
               PROVE  LET given == args[w].documents[d].fields
                          asked == IF args[r].outputFields = {} THEN DOMAIN given
                                   ELSE DOMAIN given \cap args[r].outputFields
                      IN  /\ d \in DOMAIN result[r].documents
                          /\ result[r].documents[d].fields
                                = [k \in asked |-> Readable(given[k])]
    BY DEF ReadsLastWrite
  <2> DEFINE a == args[r]
             q == request[r]
             x == args[w].documents[d]
  <2>1. PICK n \in 1..Len(effects) : \E m \in 1..n - 1 :
            effects[n] = r /\ effects[m] = w /\ versions[m + 1] = versions[n]
    BY NothingBetween
  <2>2. PICK m \in 1..n - 1 :
            effects[n] = r /\ effects[m] = w /\ versions[m + 1] = versions[n]
    BY <2>1
  <2>3. m \in 1..Len(effects) /\ m \in 1..Len(versions) /\ n \in 1..Len(versions)
    BY DEF IInv, Shape
  <2>4. d \in Ids /\ x \in Document
    <3>1. w \in Calls
      BY <2>2, <2>3 DEF IInv, Shape
    <3>2. args[w] \in Arguments /\ args[w].op = "upsert"
      BY <3>1 DEF IInv, Shape, Is
    <3> QED
      BY <3>2, ArgumentTypes
  <2>5. versions[m] \in Stores /\ versions[n] \in Stores
    BY <2>3 DEF IInv, Shape
  <2>6. versions[n][d] = Overwrite(versions[m][d], ToProto(x))
    BY <2>2, <2>3 DEF ReadInv, Upserted, Upserts
  <2>7. versions[m][d] \in ProtoDocument \cup {None}
    BY <2>4, <2>5 DEF Stores
  <2>8. versions[n][d] \in ProtoDocument /\ versions[n][d] # None
    BY <2>4, <2>6, <2>7, Overwritten, NoneAssumption
  <2>9. /\ r \in Calls /\ a \in Arguments /\ Carries(q, a)
        /\ a.op = "query" /\ q.op = "query" /\ result[r] = Written(r)
    BY ReturnedCall DEF Is, Carries
  <2>10. /\ q.filter = None /\ q.ids = {} /\ q.limit = 0 /\ q.offset = 0
         /\ q.retrieveVector = a.retrieveVector /\ q.outputFields = a.outputFields
         /\ a.filter \in Filters
    BY <2>9, ArgumentTypes DEF Carries
  <2> DEFINE selected == Selected(versions[n], q.ids, q.filter)
  <2>11. selected \in SUBSET Ids /\ d \in selected
    BY <2>4, <2>8, <2>10 DEF Selected, Matches
  <2>12. QueryAnswer(answer[r], q, versions[n])
    BY <2>2 DEF ReadInv, StrongAnswers
  <2>13. answer[r].documents = [e \in selected |-> Shown(versions[n][e], q)]
    BY <2>10, <2>11, <2>12, WholePage DEF QueryAnswer
  <2>14. result[r].documents = Decoded([e \in selected |-> Shown(versions[n][e], q)])
    BY <2>9, <2>13, QueryResult
  <2>15. /\ DOMAIN result[r].documents = selected
         /\ result[r].documents[d] = Shown(Seen(n)[d], a)
    <3>1. IsOf(answer[r], q, versions[n])
      BY <2>9, <2>12 DEF IsOf
    <3>2. result[r].documents \in HandedOut(r)
      BY <2>9 DEF HandedOut
    <3>3. DOMAIN result[r].documents = selected
      BY <2>14 DEF Decoded
    <3> QED
      BY <2>3, <2>9, <2>11, <3>1, <3>2, <3>3, GroupsOfVersion
  <2>16. Seen(n)[d] = FromProto(Overwrite(versions[m][d], ToProto(x)))
    BY <2>4, <2>6, <2>8 DEF Seen
  <2> DEFINE asked == IF a.outputFields = {} THEN DOMAIN x.fields
                      ELSE DOMAIN x.fields \cap a.outputFields
  <2>17. Shown(FromProto(Overwrite(versions[m][d], ToProto(x))), a).fields
            = [k \in asked |-> Readable(x.fields[k])]
    BY <2>4, <2>7, ReadsUpserted
  <2> QED
    BY <2>11, <2>15, <2>16, <2>17
<1> QED
  BY <1>1, ReadInvariance, AnswersInvariance, PTL

=============================================================================
