--------------------- MODULE DocumentResultsProofs ---------------------
(***************************************************************************)
(* What the results of the calls on documents hold, for any number of      *)
(* calls, documents, fields and values, and any arguments.                 *)
(*                                                                         *)
(* The invariant AnswerInv keeps, for every response, the version of the   *)
(* collection it comes from; what the program reads of it follows from the *)
(* lemmas of DocumentsProofs about the data.                               *)
(***************************************************************************)
EXTENDS DocumentsProofs, FiniteSetTheorems

(***************************************************************************)
(* What the responses and the results hold.                                *)
(***************************************************************************)
QueryAnswer(r, q, store) ==
    LET selected == Selected(store, q.ids, q.filter)
    IN  \E page \in Page(selected, q.offset, q.limit) :
           r = [documents |-> [d \in page |-> Shown(store[d], q)],
                count |-> Cardinality(selected)]

SearchAnswer(r, q, store) ==
    \E found \in [1..q.items -> SUBSET Selected(store, q.ids, q.filter)] :
       /\ \A i \in 1..q.items : q.limit = 0 \/ Cardinality(found[i]) <= q.limit
       /\ r = [results |-> [i \in 1..q.items |->
                             [d \in found[i] |-> Shown(store[d], q)]]]

CountAnswer(r, q, store) ==
    r = [count |-> Cardinality(Selected(store, {}, q.filter))]

\* Response r to request q is of the documents of `store`, if it is one to a read.
IsOf(r, q, store) ==
    /\ q.op = "query" => QueryAnswer(r, q, store)
    /\ q.op = "search" => SearchAnswer(r, q, store)
    /\ q.op = "count" => CountAnswer(r, q, store)

Written(c) ==
    CASE request[c].op = "query" ->
            [documents |-> Decoded(answer[c].documents), total |-> answer[c].count]
      [] request[c].op = "search" ->
            [documents |-> [i \in DOMAIN answer[c].results |->
                              Decoded(answer[c].results[i])]]
      [] request[c].op = "count" -> [count |-> answer[c].count]
      [] OTHER -> [affectedCount |-> Narrow(answer[c].affectedCount)]

Removed(n) == {d \in Ids : versions[n][d] # None /\ versions[n + 1][d] = None}

AnswerInv ==
    /\ \A c \in Calls : Remote!HasEffect(c) =>
          /\ outcome[c] # "unissued"
          /\ \E n \in 1..Len(versions) : IsOf(answer[c], request[c], versions[n])
    /\ \A n \in 1..Len(effects) : \E i \in 1..n :
          IsOf(answer[effects[n]], request[effects[n]], versions[i])
    /\ \A m, n \in 1..Len(effects) : effects[m] = effects[n] => m = n
    /\ \A n \in 1..Len(effects) : request[effects[n]].op = "dele" =>
          answer[effects[n]].affectedCount = Cardinality(Removed(n))
    /\ \A c \in Acknowledged : Remote!HasEffect(c) /\ result[c] = Written(c)

\* What a step of the server adds to the responses.
LEMMA ServerAnswers ==
    ASSUME IInv, NEW c \in Calls,
           \/ ServerUpserts(c) \/ ServerUpdates(c)
           \/ \E gone \in SUBSET Ids : ServerDeletes(c, gone)
           \/ ServerQueries(c) \/ ServerSearches(c) \/ ServerCounts(c)
    PROVE  /\ \E store \in Stores : \E op, reply : Executes(c, op, store, reply)
           /\ \E n \in 1..Len(versions) :
                 IsOf(answer'[c], request'[c], versions'[n])
           /\ request[c].op = "dele" =>
                 answer'[c].affectedCount
                   = Cardinality({d \in Ids : Current[d] # None /\ Current'[d] = None})
<1>1. Current \in Stores /\ Len(versions) \in Nat \ {0}
  BY CurrentIsStore DEF IInv
<1>2. ASSUME NEW op, NEW store, NEW reply, Executes(c, op, store, reply)
      PROVE  /\ request[c].op = op /\ request'[c] = request[c]
             /\ answer'[c] = reply
             /\ \A n \in 1..Len(versions) : versions'[n] = versions[n]
             /\ Current' = store
  <2>1. /\ request[c].op = op /\ request' = request
        /\ answer' = [answer EXCEPT ![c] = reply]
        /\ versions' = Append(versions, store)
    BY <1>2 DEF Executes, Asks
  <2>2. answer'[c] = reply
    BY <2>1 DEF IInv, Shape
  <2>3. /\ \A n \in 1..Len(versions) : versions'[n] = versions[n]
        /\ Current' = store
    BY <1>1, <2>1 DEF Current, IInv, Shape
  <2> QED
    BY <2>1, <2>2, <2>3
<1>3. CASE ServerUpserts(c) \/ ServerUpdates(c)
  <2>1. \E op \in {"upsert", "update"} : \E store, reply :
           Executes(c, op, store, reply)
    BY <1>3 DEF ServerUpserts, ServerUpdates
  <2>2. PICK op \in {"upsert", "update"} : \E store, reply :
           Executes(c, op, store, reply)
    BY <2>1
  <2> PICK store, reply : Executes(c, op, store, reply)
    BY <2>2
  <2>3. request[c].op \in {"upsert", "update"} /\ request'[c].op \in {"upsert", "update"}
        /\ Current' = store
    BY <1>2, <2>2
  <2>4. store \in Stores
    <3>1. IInv'
      BY <1>3, ServerStep
    <3>2. versions' \in Seq(Stores) /\ Len(versions') = Len(versions) + 1
      BY <2>2, <3>1 DEF IInv, Shape, Executes
    <3>3. Current' \in Stores
      BY <1>1, <3>2 DEF Current
    <3> QED
      BY <2>3, <3>3
  <2>5. IsOf(answer'[c], request'[c], versions'[1])
    BY <2>3 DEF IsOf
  <2> QED
    BY <1>1, <2>2, <2>3, <2>4, <2>5
<1>4. CASE \E gone \in SUBSET Ids : ServerDeletes(c, gone)
  <2>1. PICK gone \in SUBSET Ids : ServerDeletes(c, gone)
    BY <1>4
  <2>2. /\ Executes(c, "dele", Deleting(gone), [affectedCount |-> Cardinality(gone)])
        /\ gone \in Firsts(Selected(Current, request[c].ids, request[c].filter),
                           request[c].limit)
    BY <2>1 DEF ServerDeletes, Deleting
  <2>3. /\ request[c].op = "dele" /\ request'[c].op = "dele"
        /\ answer'[c] = [affectedCount |-> Cardinality(gone)]
        /\ Current' = Deleting(gone)
    BY <1>2, <2>2
  <2>4. \A d \in gone : d \in Ids /\ Current[d] # None
    BY <2>2 DEF Firsts, Selected
  <2>5. gone = {d \in Ids : Current[d] # None /\ Current'[d] = None}
    BY <2>3, <2>4 DEF Deleting
  <2>6. IsOf(answer'[c], request'[c], versions'[1])
    BY <2>3 DEF IsOf
  <2>7. Deleting(gone) \in Stores
    BY DeletedStore DEF IInv
  <2>8. answer'[c].affectedCount
          = Cardinality({d \in Ids : Current[d] # None /\ Current'[d] = None})
    BY <2>3, <2>5
  <2>9. \E store \in Stores : \E op, reply : Executes(c, op, store, reply)
    BY <2>2, <2>7
  <2> QED
    BY <1>1, <2>6, <2>8, <2>9
<1>5. CASE ServerQueries(c)
  <2>1. PICK n \in Visible(c) :
          LET q == request[c]
              selected == Selected(versions[n], q.ids, q.filter)
          IN  \E page \in Page(selected, q.offset, q.limit) :
                 Executes(c, "query", Current,
                    [documents |-> [d \in page |-> Shown(versions[n][d], q)],
                     count |-> Cardinality(selected)])
    BY <1>5 DEF ServerQueries
  <2>2. n \in 1..Len(versions)
    BY <1>1, <2>1 DEF Visible
  <2> DEFINE q == request[c]
             selected == Selected(versions[n], q.ids, q.filter)
  <2>3. PICK page \in Page(selected, q.offset, q.limit) :
          Executes(c, "query", Current,
             [documents |-> [d \in page |-> Shown(versions[n][d], q)],
              count |-> Cardinality(selected)])
    BY <2>1
  <2>4. /\ request[c].op = "query" /\ request'[c] = q
        /\ versions'[n] = versions[n]
        /\ answer'[c] = [documents |-> [d \in page |-> Shown(versions[n][d], q)],
                         count |-> Cardinality(selected)]
    BY <1>2, <2>2, <2>3
  <2>5. QueryAnswer(answer'[c], request'[c], versions'[n])
    BY <2>4 DEF QueryAnswer
  <2>6. IsOf(answer'[c], request'[c], versions'[n])
    BY <2>4, <2>5 DEF IsOf
  <2> QED
    BY <1>1, <2>2, <2>3, <2>4, <2>6
<1>6. CASE ServerSearches(c)
  <2>1. PICK n \in Visible(c) :
          LET q == request[c]
              selected == Selected(versions[n], q.ids, q.filter)
          IN  \E found \in [1..q.items -> SUBSET selected] :
                 /\ \A i \in 1..q.items :
                       q.limit = 0 \/ Cardinality(found[i]) <= q.limit
                 /\ Executes(c, "search", Current,
                        [results |->
                           [i \in 1..q.items |->
                              [d \in found[i] |-> Shown(versions[n][d], q)]]])
    BY <1>6 DEF ServerSearches
  <2>2. n \in 1..Len(versions)
    BY <1>1, <2>1 DEF Visible
  <2> DEFINE q == request[c]
             selected == Selected(versions[n], q.ids, q.filter)
  <2>3. PICK found \in [1..q.items -> SUBSET selected] :
          /\ \A i \in 1..q.items :
                q.limit = 0 \/ Cardinality(found[i]) <= q.limit
          /\ Executes(c, "search", Current,
                 [results |->
                    [i \in 1..q.items |->
                       [d \in found[i] |-> Shown(versions[n][d], q)]]])
    BY <2>1
  <2>4. /\ request[c].op = "search" /\ request'[c] = q
        /\ versions'[n] = versions[n]
        /\ answer'[c] = [results |->
                           [i \in 1..q.items |->
                              [d \in found[i] |-> Shown(versions[n][d], q)]]]
    BY <1>2, <2>2, <2>3
  <2>5. SearchAnswer(answer'[c], request'[c], versions'[n])
    BY <2>3, <2>4 DEF SearchAnswer
  <2>6. IsOf(answer'[c], request'[c], versions'[n])
    BY <2>4, <2>5 DEF IsOf
  <2> QED
    BY <1>1, <2>2, <2>3, <2>4, <2>6
<1>7. CASE ServerCounts(c)
  <2>1. PICK n \in Visible(c) :
          Executes(c, "count", Current,
             [count |-> Cardinality(Selected(versions[n], {}, request[c].filter))])
    BY <1>7 DEF ServerCounts
  <2>2. n \in 1..Len(versions)
    BY <1>1, <2>1 DEF Visible
  <2>3. /\ request[c].op = "count" /\ request'[c] = request[c]
        /\ versions'[n] = versions[n]
        /\ answer'[c] =
             [count |-> Cardinality(Selected(versions[n], {}, request[c].filter))]
    BY <1>2, <2>1, <2>2
  <2>4. CountAnswer(answer'[c], request'[c], versions'[n])
    BY <2>3 DEF CountAnswer
  <2>5. IsOf(answer'[c], request'[c], versions'[n])
    BY <2>3, <2>4 DEF IsOf
  <2> QED
    BY <1>1, <2>1, <2>2, <2>3, <2>5
<1> QED
  BY <1>3, <1>4, <1>5, <1>6, <1>7

LEMMA AnswerServerStep ==
    ASSUME IInv, AnswerInv, NEW c \in Calls,
           \/ ServerUpserts(c) \/ ServerUpdates(c)
           \/ \E gone \in SUBSET Ids : ServerDeletes(c, gone)
           \/ ServerQueries(c) \/ ServerSearches(c) \/ ServerCounts(c)
    PROVE  AnswerInv'
<1>1. PICK store \in Stores : \E op, reply : Executes(c, op, store, reply)
  BY ServerAnswers
<1>2. PICK op, reply : Executes(c, op, store, reply)
  BY <1>1
<1>3. /\ outcome[c] \in {"pending", "error"} /\ ~Remote!HasEffect(c)
      /\ effects' = Append(effects, c)
      /\ versions' = Append(versions, store)
      /\ answer' = [answer EXCEPT ![c] = reply]
      /\ UNCHANGED <<outcome, request, result>>
  BY <1>2 DEF Executes, Remote!TakeEffect
<1>4. /\ effects \in Seq(Calls) /\ versions \in Seq(Stores)
      /\ Len(versions) = Len(effects) + 1 /\ Len(effects) \in Nat
  BY DEF IInv, Shape
<1>5. /\ Len(effects') = Len(effects) + 1
      /\ \A i \in 1..Len(effects) : effects'[i] = effects[i] /\ effects[i] \in Calls
      /\ effects'[Len(effects) + 1] = c
  BY <1>3, <1>4, AppendProperties
<1>6. /\ Len(versions') = Len(versions) + 1
      /\ \A i \in 1..Len(versions) : versions'[i] = versions[i]
      /\ versions'[Len(versions) + 1] = store
  BY <1>3, <1>4, AppendProperties
<1>7. /\ \A b \in Calls : b # c => answer'[b] = answer[b]
      /\ \A i \in 1..Len(effects) : effects[i] # c
  BY <1>3 DEF IInv, Shape, Remote!HasEffect
<1>8. \A b \in Calls : Remote!HasEffect(b)' => Remote!HasEffect(b) \/ b = c
  BY <1>4, <1>5 DEF Remote!HasEffect
<1>9. \A b \in Calls : Remote!HasEffect(b) => Remote!HasEffect(b)' /\ b # c
  BY <1>3, <1>4, <1>5 DEF Remote!HasEffect
<1>10. ASSUME NEW b \in Calls, Remote!HasEffect(b)'
       PROVE  /\ outcome'[b] # "unissued"
              /\ \E n \in 1..Len(versions') :
                    IsOf(answer'[b], request'[b], versions'[n])
  <2>1. CASE b = c
    <3>1. PICK n \in 1..Len(versions) : IsOf(answer'[c], request'[c], versions'[n])
      BY ServerAnswers
    <3>2. n \in 1..Len(versions')
      BY <1>4, <1>6
    <3> QED
      BY <1>3, <2>1, <3>1, <3>2
  <2>2. CASE b # c
    <3>1. Remote!HasEffect(b)
      BY <1>8, <1>10, <2>2
    <3>2. PICK n \in 1..Len(versions) : IsOf(answer[b], request[b], versions[n])
      BY <3>1 DEF AnswerInv
    <3>3. IsOf(answer'[b], request'[b], versions'[n])
      BY <1>3, <1>6, <1>7, <2>2, <3>2
    <3> QED
      BY <1>3, <1>4, <1>6, <3>1, <3>3 DEF AnswerInv
  <2> QED
    BY <2>1, <2>2
<1>11. \A m, n \in 1..Len(effects') : effects'[m] = effects'[n] => m = n
  BY <1>4, <1>5, <1>7 DEF AnswerInv
<1>12. ASSUME NEW n \in 1..Len(effects'), request'[effects'[n]].op = "dele"
       PROVE  answer'[effects'[n]].affectedCount = Cardinality(Removed(n)')
  <2>1. CASE n = Len(effects) + 1
    <3>1. effects'[n] = c /\ request[c].op = "dele"
      BY <1>3, <1>5, <1>12, <2>1
    <3>2. n = Len(versions) /\ versions'[n] = Current /\ Current' = versions'[n + 1]
      BY <1>4, <1>6, <2>1 DEF Current
    <3>3. {d \in Ids : Current[d] # None /\ Current'[d] = None} = Removed(n)'
      BY <3>2 DEF Removed
    <3> QED
      BY <3>1, <3>3, ServerAnswers
  <2>2. CASE n # Len(effects) + 1
    <3>1. n \in 1..Len(effects)
      BY <1>4, <1>5, <2>2
    <3>2. /\ effects'[n] = effects[n] /\ effects[n] \in Calls
          /\ answer'[effects[n]] = answer[effects[n]]
      BY <1>5, <1>7, <3>1
    <3>3. versions'[n] = versions[n] /\ versions'[n + 1] = versions[n + 1]
      BY <1>4, <1>6, <3>1
    <3>4. Removed(n)' = Removed(n)
      BY <3>3 DEF Removed
    <3> QED
      BY <1>3, <1>12, <3>1, <3>2, <3>4 DEF AnswerInv
  <2> QED
    BY <2>1, <2>2
<1>13. ASSUME NEW b \in Acknowledged'
       PROVE  Remote!HasEffect(b)' /\ result'[b] = Written(b)'
  <2>1. b \in Acknowledged
    BY <1>3 DEF Acknowledged
  <2>2. /\ Remote!HasEffect(b) /\ result[b] = Written(b) /\ b \in Calls
    BY <2>1 DEF AnswerInv, Acknowledged
  <2>3. answer'[b] = answer[b]
    BY <1>7, <1>9, <2>2
  <2>4. Written(b)' = Written(b)
    BY <1>3, <2>3 DEF Written
  <2> QED
    BY <1>3, <1>9, <2>2, <2>4
<1>14. ASSUME NEW n \in 1..Len(effects')
       PROVE  \E i \in 1..n :
                 IsOf(answer'[effects'[n]], request'[effects'[n]], versions'[i])
  <2>1. CASE n = Len(effects) + 1
    <3>1. PICK i \in 1..Len(versions) : IsOf(answer'[c], request'[c], versions'[i])
      BY ServerAnswers
    <3> QED
      BY <1>4, <1>5, <2>1, <3>1
  <2>2. CASE n # Len(effects) + 1
    <3>1. n \in 1..Len(effects)
      BY <1>4, <1>5, <2>2
    <3>2. PICK i \in 1..n : IsOf(answer[effects[n]], request[effects[n]], versions[i])
      BY <3>1 DEF AnswerInv
    <3>3. effects'[n] = effects[n] /\ answer'[effects[n]] = answer[effects[n]]
      BY <1>5, <1>7, <3>1
    <3>4. versions'[i] = versions[i]
      BY <1>4, <1>6, <3>1
    <3> QED
      BY <1>3, <3>2, <3>3, <3>4
  <2> QED
    BY <2>1, <2>2
<1> QED
  BY <1>10, <1>11, <1>12, <1>13, <1>14 DEF AnswerInv

LEMMA AnswerHandledStep ==
    ASSUME IInv, AnswerInv, NEW c \in Calls, Handled(c) \/ Fail(c)
    PROVE  AnswerInv'
<1>1. UNCHANGED <<request, versions, effects, answer>>
  BY HandledStep
<1>2. CASE Fail(c)
  <2>1. /\ outcome[c] = "pending" /\ outcome' = [outcome EXCEPT ![c] = "error"]
        /\ result' = result
    BY <1>2 DEF Fail, Remote!GiveUp
  <2>2. Acknowledged' \subseteq Acknowledged
    BY <2>1 DEF Acknowledged, IInv, Shape
  <2>3. \A b \in Calls : outcome[b] # "unissued" => outcome'[b] # "unissued"
    BY <2>1 DEF IInv, Shape
  <2> QED
    BY <1>1, <2>1, <2>2, <2>3
       DEF AnswerInv, Remote!HasEffect, Written, Removed
<1>3. CASE Handled(c)
  <2>1. Return(c, request[c].op, Written(c))
    BY <1>3 DEF Handled, upsert, update, dele, query, search, count, Return, Asks, Written
  <2>2. /\ Remote!HasEffect(c)
        /\ outcome' = [outcome EXCEPT ![c] = "ok"]
        /\ result' = [result EXCEPT ![c] = Written(c)]
    BY <2>1 DEF Return, Remote!Acknowledge
  <2>3. \A b \in Acknowledged' : b \in Acknowledged \/ b = c
    BY <2>2 DEF Acknowledged, IInv, Shape
  <2>4. \A b \in Calls : outcome[b] # "unissued" => outcome'[b] # "unissued"
    BY <2>2 DEF IInv, Shape
  <2>5. \A b \in Calls : Remote!HasEffect(b)' = Remote!HasEffect(b) /\ Written(b)' = Written(b)
    BY <1>1 DEF Remote!HasEffect, Written
  <2>6. ASSUME NEW b \in Acknowledged'
        PROVE  Remote!HasEffect(b)' /\ result'[b] = Written(b)'
    <3>1. b \in Calls
      BY DEF Acknowledged
    <3>2. CASE b = c
      BY <2>2, <2>5, <3>1, <3>2 DEF IInv, Shape
    <3>3. CASE b # c
      <4>1. b \in Acknowledged /\ result'[b] = result[b]
        BY <2>2, <2>3, <3>1, <3>3 DEF IInv, Shape
      <4> QED
        BY <2>5, <3>1, <4>1 DEF AnswerInv
    <3> QED
      BY <3>2, <3>3
  <2> QED
    BY <1>1, <2>4, <2>6 DEF AnswerInv, Remote!HasEffect, Removed
<1> QED
  BY <1>2, <1>3

LEMMA AnswerInvokeStep ==
    ASSUME IInv, AnswerInv, NEW c \in Calls, NEW a \in Arguments, Invoke(c, a)
    PROVE  AnswerInv'
<1>1. /\ outcome[c] = "unissued"
      /\ outcome' = [outcome EXCEPT ![c] = "pending"]
      /\ request' = [request EXCEPT ![c] = Request(a)]
      /\ UNCHANGED <<versions, effects, answer, result>>
  BY DEF Invoke, Remote!Issue
<1>2. ~Remote!HasEffect(c)
  BY <1>1 DEF AnswerInv
<1>3. \A b \in Calls : b # c => request'[b] = request[b] /\ outcome'[b] = outcome[b]
  BY <1>1 DEF IInv, Shape
<1>4. \A b \in Calls : Remote!HasEffect(b)' = Remote!HasEffect(b)
  BY <1>1 DEF Remote!HasEffect
<1>5. \A n \in 1..Len(effects) : effects[n] # c /\ effects[n] \in Calls
  BY <1>2 DEF Remote!HasEffect, IInv, Shape
<1>6. Acknowledged' = Acknowledged /\ c \notin Acknowledged
  BY <1>1 DEF Acknowledged, IInv, Shape
<1>7. \A b \in Calls : b # c => Written(b)' = Written(b)
  BY <1>1, <1>3 DEF Written
<1>8. \A b \in Calls : Remote!HasEffect(b)' =>
          /\ outcome'[b] # "unissued"
          /\ \E n \in 1..Len(versions') : IsOf(answer'[b], request'[b], versions'[n])
  BY <1>1, <1>2, <1>3, <1>4 DEF AnswerInv
<1>9. \A n \in 1..Len(effects') : request'[effects'[n]].op = "dele" =>
          answer'[effects'[n]].affectedCount = Cardinality(Removed(n)')
  <2> SUFFICES ASSUME NEW n \in 1..Len(effects), request'[effects[n]].op = "dele"
               PROVE  answer[effects[n]].affectedCount = Cardinality(Removed(n)')
    BY <1>1
  <2>1. request[effects[n]].op = "dele"
    BY <1>3, <1>5
  <2>2. Removed(n)' = Removed(n)
    BY <1>1 DEF Removed
  <2> QED
    BY <2>1, <2>2 DEF AnswerInv
<1>10. \A b \in Acknowledged' : Remote!HasEffect(b)' /\ result'[b] = Written(b)'
  BY <1>1, <1>4, <1>6, <1>7 DEF AnswerInv, Acknowledged
<1>11. \A m, n \in 1..Len(effects') : effects'[m] = effects'[n] => m = n
  BY <1>1 DEF AnswerInv
<1>12. \A n \in 1..Len(effects') : \E i \in 1..n :
          IsOf(answer'[effects'[n]], request'[effects'[n]], versions'[i])
  BY <1>1, <1>3, <1>5 DEF AnswerInv
<1> QED
  BY <1>8, <1>9, <1>10, <1>11, <1>12 DEF AnswerInv

\* Every response is of one version, that of a dele counts what it removed, and
\* every result is what its response says.
THEOREM AnswersInvariance == Spec => [](IInv /\ AnswerInv)
<1>1. Init => AnswerInv
  <2> SUFFICES ASSUME Init PROVE AnswerInv
    OBVIOUS
  <2>1. effects = <<>> /\ outcome = [c \in Calls |-> "unissued"]
    BY DEF Init, Remote!Init
  <2> QED
    BY <2>1 DEF AnswerInv, Remote!HasEffect, Acknowledged
<1>2. AnswerInv /\ IInv /\ [Next]_vars => AnswerInv'
  <2> SUFFICES ASSUME AnswerInv, IInv, [Next]_vars PROVE AnswerInv'
    OBVIOUS
  <2>1. CASE UNCHANGED vars
    <3>1. UNCHANGED <<outcome, effects, request, versions, answer, result>>
      BY <2>1 DEF vars
    <3> QED
      BY <3>1 DEF AnswerInv, Acknowledged, Remote!HasEffect, Written, Removed
  <2>2. ASSUME NEW c \in Calls, NEW a \in Arguments, Invoke(c, a) PROVE AnswerInv'
    BY <2>2, AnswerInvokeStep
  <2>3. ASSUME NEW c \in Calls,
               \/ ServerUpserts(c) \/ ServerUpdates(c)
               \/ \E gone \in SUBSET Ids : ServerDeletes(c, gone)
               \/ ServerQueries(c) \/ ServerSearches(c) \/ ServerCounts(c)
        PROVE  AnswerInv'
    BY <2>3, AnswerServerStep
  <2>4. ASSUME NEW c \in Calls, Handled(c) \/ Fail(c) PROVE AnswerInv'
    BY <2>4, AnswerHandledStep
  <2> QED
    BY <2>1, <2>2, <2>3, <2>4 DEF Next, Handled
<1> QED
  BY <1>1, <1>2, Invariance, InitInv, NextInv, PTL DEF Spec

(***************************************************************************)
(* What the program reads of the results.                                  *)
(***************************************************************************)

\* What a request asks to be shown of a document is what its caller would ask to
\* be shown of the document as the program sees it.
LEMMA ShownIs ==
    ASSUME NEW p \in ProtoDocument, NEW q, NEW a,
           q.retrieveVector = a.retrieveVector, q.outputFields = a.outputFields
    PROVE  /\ Shown(p, q) \in ProtoDocument
           /\ FromProto(Shown(p, q)) = Shown(FromProto(p), a)
<1> DEFINE keys == IF q.outputFields = {} THEN DOMAIN p.fields
                   ELSE q.outputFields \cap DOMAIN p.fields
           sent == [k \in keys |-> p.fields[k]]
           vec == IF q.retrieveVector THEN p.vector ELSE None
           read == FromProto(p)
<1>1. /\ p.fields \in [DOMAIN p.fields -> ProtoField]
      /\ DOMAIN p.fields \subseteq Keys
      /\ p.vector \in Vectors \cup {None}
  BY MapsAre DEF ProtoDocument
<1>2. Shown(p, q) = [vector |-> vec, fields |-> sent]
  BY <1>1 DEF Shown, Restrict
<1>3. Shown(p, q) \in ProtoDocument
  <2>1. sent \in Maps(ProtoField)
    BY <1>1, MapsAre
  <2> QED
    BY <1>1, <1>2, <2>1 DEF ProtoDocument
<1>4. FromProto(Shown(p, q)) =
        [vector |-> vec, fields |-> [k \in keys |-> convertProto2Field(p.fields[k])]]
  BY <1>2, <1>3, FromProtoIs
<1>5. /\ read.vector = p.vector
      /\ read.fields = [k \in DOMAIN p.fields |-> convertProto2Field(p.fields[k])]
  BY FromProtoIs
<1>6. Shown(read, a) =
        [vector |-> vec, fields |-> [k \in keys |-> convertProto2Field(p.fields[k])]]
  <2>1. (IF a.outputFields = {} THEN read.fields
         ELSE Restrict(read.fields, a.outputFields \cap DOMAIN read.fields))
           = [k \in keys |-> convertProto2Field(p.fields[k])]
    BY <1>5 DEF Restrict
  <2> QED
    BY <1>5, <2>1 DEF Shown
<1> QED
  BY <1>3, <1>4, <1>6

LEMMA SelectedMeet ==
    ASSUME IInv, NEW n \in 1..Len(versions), NEW f \in Filters
    PROVE  /\ versions[n] \in Stores
           /\ Selected(versions[n], {}, f) = Meeting(n, f)
<1>1. versions[n] \in Stores
  BY DEF IInv, Shape
<1>2. ASSUME NEW d \in Ids
      PROVE  /\ (versions[n][d] # None) <=> (Seen(n)[d] # None)
             /\ versions[n][d] # None =>
                   (Matches(versions[n][d], f) <=> Meets(Seen(n)[d], f))
  <2>1. versions[n][d] \in ProtoDocument \cup {None}
    BY <1>1 DEF Stores
  <2>2. Seen(n)[d] = AsSeen(versions[n][d])
    BY DEF Seen, AsSeen
  <2> QED
    BY <2>1, <2>2, AsSeenNone, SameFilter
<1> QED
  BY <1>1, <1>2 DEF Selected, Meeting

\* The documents decoded of one group.
LEMMA DecodedGroup ==
    ASSUME IInv, NEW n \in 1..Len(versions), NEW a, NEW q, NEW page,
           a.filter \in Filters, q.filter = a.filter,
           q.retrieveVector = a.retrieveVector, q.outputFields = a.outputFields,
           page \subseteq Selected(versions[n], q.ids, q.filter)
    PROVE  LET documents == Decoded([d \in page |-> Shown(versions[n][d], q)])
           IN  /\ DOMAIN documents = page
               /\ \A d \in page : /\ d \in Meeting(n, a.filter)
                                  /\ documents[d] = Shown(Seen(n)[d], a)
<1> DEFINE documents == Decoded([d \in page |-> Shown(versions[n][d], q)])
<1>1. DOMAIN documents = page
  BY DEF Decoded
<1>2. ASSUME NEW d \in page
      PROVE  /\ d \in Meeting(n, a.filter)
             /\ documents[d] = Shown(Seen(n)[d], a)
  <2>1. /\ d \in Ids /\ versions[n][d] # None
        /\ d \in Selected(versions[n], {}, a.filter)
    BY DEF Selected
  <2>2. versions[n][d] \in ProtoDocument
    BY <2>1, SelectedMeet DEF Stores
  <2>3. documents[d] = FromProto(Shown(versions[n][d], q))
    BY DEF Decoded
  <2>4. Seen(n)[d] = FromProto(versions[n][d])
    BY <2>1 DEF Seen
  <2> QED
    BY <2>1, <2>2, <2>3, <2>4, SelectedMeet, ShownIs
<1> QED
  BY <1>1, <1>2

LEMMA PageIs ==
    ASSUME NEW selected \in SUBSET Ids, NEW offset \in Int, NEW limit \in Int,
           NEW page \in Page(selected, offset, limit)
    PROVE  /\ page \subseteq selected
           /\ limit > 0 => Cardinality(page) <= limit
<1> DEFINE skipped == IF offset > 0 THEN offset ELSE 0
           rest == IF skipped >= Cardinality(selected) THEN 0
                   ELSE Cardinality(selected) - skipped
           most == IF limit \in 1..rest THEN limit ELSE rest
<1>1. /\ Cardinality(selected) \in Nat
      /\ Cardinality({}) = 0
  BY IdsAssumption, FS_Subset, FS_CardinalityType, FS_EmptySet
<1>2. page \in IF rest = 0 THEN {{}} ELSE Firsts(selected, most)
  BY DEF Page
<1>3. rest \in 0..Cardinality(selected)
  BY <1>1
<1> HIDE DEF rest
<1>4. page \subseteq selected
  BY <1>2 DEF Firsts
<1>5. ASSUME limit > 0 PROVE Cardinality(page) <= limit
  BY <1>1, <1>2, <1>3, <1>5 DEF Firsts
<1> QED
  BY <1>4, <1>5

\* What is known of a call that returned 0.
LEMMA ReturnedCall ==
    ASSUME IInv, AnswerInv, NEW r \in Acknowledged
    PROVE  /\ r \in Calls /\ Remote!HasEffect(r)
           /\ args[r] \in Arguments /\ Carries(request[r], args[r])
           /\ result[r] = Written(r)
           /\ \E n \in 1..Len(versions) : IsOf(answer[r], request[r], versions[n])
BY DEF IInv, Linked, AnswerInv, Acknowledged

LEMMA SmallLimit ==
    ASSUME NEW x \in 1..Width - 1
    PROVE  x % Width = x /\ x # 0
BY WidthAssumption, SMT

\* What a query and a search write into their results.
LEMMA QueryResult ==
    ASSUME NEW r \in Calls, request[r].op = "query", result[r] = Written(r)
    PROVE  /\ result[r].documents = Decoded(answer[r].documents)
           /\ result[r].total = answer[r].count
<1>1. Written(r) = [documents |-> Decoded(answer[r].documents),
                    total |-> answer[r].count]
  BY DEF Written
<1> QED
  BY <1>1

LEMMA SearchResult ==
    ASSUME NEW r \in Calls, request[r].op = "search", result[r] = Written(r)
    PROVE  result[r].documents = [i \in DOMAIN answer[r].results |->
                                    Decoded(answer[r].results[i])]
<1>1. Written(r) = [documents |-> [i \in DOMAIN answer[r].results |->
                                    Decoded(answer[r].results[i])]]
  BY DEF Written
<1> QED
  BY <1>1

\* The groups a query or search hands out, with the version they come from.
LEMMA GroupsOfVersion ==
    ASSUME IInv, AnswerInv, NEW r \in Acknowledged,
           NEW n \in 1..Len(versions), IsOf(answer[r], request[r], versions[n]),
           args[r].op \in {"query", "search"}
    PROVE  \A documents \in HandedOut(r) :
              /\ \A d \in DOMAIN documents :
                    /\ d \in Meeting(n, args[r].filter)
                    /\ documents[d] = Shown(Seen(n)[d], args[r])
              /\ args[r].limit \in 1..Width - 1
                    => Cardinality(DOMAIN documents) <= args[r].limit
<1> DEFINE a == args[r]
           q == request[r]
           selected == Selected(versions[n], q.ids, q.filter)
<1>1. /\ a \in Arguments /\ Carries(q, a) /\ result[r] = Written(r)
      /\ q.op = a.op /\ r \in Calls
  BY ReturnedCall DEF Carries
<1>2. /\ a.filter \in Filters /\ q.filter = a.filter
      /\ q.retrieveVector = a.retrieveVector /\ q.outputFields = a.outputFields
  BY <1>1, ArgumentTypes DEF Carries
<1>3. selected \in SUBSET Ids
  BY DEF Selected
<1>4. ASSUME NEW page \in SUBSET selected
      PROVE  LET documents == Decoded([d \in page |-> Shown(versions[n][d], q)])
             IN  /\ DOMAIN documents = page
                 /\ \A d \in DOMAIN documents :
                       /\ d \in Meeting(n, a.filter)
                       /\ documents[d] = Shown(Seen(n)[d], a)
  BY <1>2, DecodedGroup
<1>5. CASE a.op = "query"
  <2>1. PICK page \in Page(selected, q.offset, q.limit) :
          answer[r] = [documents |-> [d \in page |-> Shown(versions[n][d], q)],
                       count |-> Cardinality(selected)]
    BY <1>1, <1>5 DEF IsOf, QueryAnswer
  <2>2. q.limit = a.limit /\ q.limit \in Int /\ q.offset \in Int
    BY <1>1, <1>5, ArgumentTypes DEF Carries
  <2>3. /\ page \in SUBSET selected
        /\ a.limit > 0 => Cardinality(page) <= a.limit
    BY <1>3, <2>2, PageIs
  <2>4. HandedOut(r) = {Decoded([d \in page |-> Shown(versions[n][d], q)])}
    <3>1. result[r].documents = Decoded(answer[r].documents)
      BY <1>1, <1>5, QueryResult
    <3> QED
      BY <1>5, <2>1, <3>1 DEF HandedOut
  <2>5. a.limit \in 1..Width - 1 => Cardinality(page) <= a.limit
    BY <2>2, <2>3
  <2> QED
    BY <1>4, <2>3, <2>4, <2>5
<1>6. CASE a.op = "search"
  <2>1. PICK found \in [1..q.items -> SUBSET selected] :
          /\ \A i \in 1..q.items : q.limit = 0 \/ Cardinality(found[i]) <= q.limit
          /\ answer[r] = [results |-> [i \in 1..q.items |->
                             [d \in found[i] |-> Shown(versions[n][d], q)]]]
    BY <1>1, <1>6 DEF IsOf, SearchAnswer
  <2> DEFINE group == [i \in 1..q.items |->
                         [d \in found[i] |-> Shown(versions[n][d], q)]]
  <2>2. result[r].documents = [i \in 1..q.items |-> Decoded(group[i])]
    <3>1. answer[r].results = group /\ DOMAIN group = 1..q.items
      BY <2>1
    <3>2. result[r].documents
            = [i \in DOMAIN answer[r].results |-> Decoded(answer[r].results[i])]
      BY <1>1, <1>6, SearchResult
    <3> QED
      BY <3>1, <3>2
  <2>3. ASSUME NEW documents \in HandedOut(r)
        PROVE  \E i \in 1..q.items : documents = Decoded(group[i])
    BY <1>6, <2>2 DEF HandedOut
  <2>4. a.limit \in 1..Width - 1 => q.limit = a.limit /\ q.limit # 0
    <3>1. q.limit = a.limit % Width
      BY <1>1, <1>6 DEF Carries
    <3> QED
      BY <3>1, SmallLimit
  <2>5. ASSUME NEW i \in 1..q.items
        PROVE  /\ found[i] \in SUBSET selected
               /\ a.limit \in 1..Width - 1 => Cardinality(found[i]) <= a.limit
    BY <2>1, <2>4
  <2> SUFFICES ASSUME NEW documents \in HandedOut(r)
               PROVE  /\ \A d \in DOMAIN documents :
                            /\ d \in Meeting(n, a.filter)
                            /\ documents[d] = Shown(Seen(n)[d], a)
                      /\ a.limit \in 1..Width - 1
                            => Cardinality(DOMAIN documents) <= a.limit
    OBVIOUS
  <2>6. PICK i \in 1..q.items : documents = Decoded(group[i])
    BY <2>3
  <2>7. documents = Decoded([d \in found[i] |-> Shown(versions[n][d], q)])
    BY <2>6
  <2> QED
    BY <1>4, <2>5, <2>7
<1> QED
  BY <1>5, <1>6

\* All that a read hands out met its filter in one version of the collection.
THEOREM ReadsOneVersion == Spec => []AnswersOneVersion
<1>1. IInv /\ AnswerInv => AnswersOneVersion
  <2> SUFFICES ASSUME IInv, AnswerInv, NEW r \in Acknowledged,
                      Is(r, {"query", "search", "count"})
               PROVE  \E n \in 1..Len(versions) :
                        LET meeting == Meeting(n, args[r].filter)
                        IN  IF args[r].op = "count"
                            THEN result[r].count = Cardinality(meeting)
                            ELSE /\ \A documents \in HandedOut(r) :
                                       \A d \in DOMAIN documents :
                                          /\ d \in meeting
                                          /\ documents[d] = Shown(Seen(n)[d], args[r])
                                 /\ (args[r].op = "query" /\ args[r].ids = {})
                                       => result[r].total = Cardinality(meeting)
    BY DEF AnswersOneVersion
  <2> DEFINE a == args[r]
  <2>1. /\ a \in Arguments /\ Carries(request[r], a) /\ result[r] = Written(r)
        /\ a.op \in {"query", "search", "count"} /\ request[r].op = a.op
        /\ r \in Calls
    BY ReturnedCall DEF Is, Carries
  <2>2. a.filter \in Filters /\ request[r].filter = a.filter
    BY <2>1, ArgumentTypes DEF Carries
  <2>3. PICK n \in 1..Len(versions) : IsOf(answer[r], request[r], versions[n])
    BY ReturnedCall
  <2>4. Selected(versions[n], {}, a.filter) = Meeting(n, a.filter)
    BY <2>2, SelectedMeet
  <2>5. CASE a.op = "count"
    BY <2>1, <2>2, <2>3, <2>4, <2>5 DEF IsOf, CountAnswer, Written
  <2>6. CASE a.op # "count"
    <3>1. \A documents \in HandedOut(r) : \A d \in DOMAIN documents :
             d \in Meeting(n, a.filter) /\ documents[d] = Shown(Seen(n)[d], a)
      BY <2>1, <2>3, <2>6, GroupsOfVersion
    <3>2. ASSUME a.op = "query", a.ids = {}
          PROVE  result[r].total = Cardinality(Meeting(n, a.filter))
      <4>1. request[r].ids = {}
        BY <2>1, <3>2 DEF Carries
      <4>2. QueryAnswer(answer[r], request[r], versions[n])
        BY <2>1, <2>3, <3>2 DEF IsOf
      <4>3. PICK page :
              answer[r] = [documents |-> [d \in page |-> Shown(versions[n][d], request[r])],
                           count |-> Cardinality(Selected(versions[n], {}, a.filter))]
        BY <2>2, <4>1, <4>2 DEF QueryAnswer
      <4>4. result[r].total = answer[r].count
        BY <2>1, <3>2, QueryResult
      <4> QED
        BY <2>4, <4>3, <4>4
    <3> QED
      BY <2>3, <2>6, <3>1, <3>2
  <2> QED
    BY <2>5, <2>6
<1> QED
  BY <1>1, AnswersInvariance, PTL

\* No read hands out more than its limit, as long as a uint32 holds it, and a
\* search answers each thing it was asked for.
THEOREM LimitsHold == Spec => []AnswersWithinLimits
<1>1. IInv /\ AnswerInv => AnswersWithinLimits
  <2> SUFFICES ASSUME IInv, AnswerInv, NEW r \in Acknowledged,
                      Is(r, {"query", "search"})
               PROVE  /\ args[r].op = "search" =>
                            Len(result[r].documents) = args[r].items
                      /\ args[r].limit \in 1..Width - 1 =>
                            \A documents \in HandedOut(r) :
                               Cardinality(DOMAIN documents) <= args[r].limit
    BY DEF AnswersWithinLimits
  <2> DEFINE a == args[r]
  <2>1. /\ a \in Arguments /\ Carries(request[r], a) /\ result[r] = Written(r)
        /\ a.op \in {"query", "search"} /\ request[r].op = a.op
        /\ r \in Calls
    BY ReturnedCall DEF Is, Carries
  <2>2. PICK n \in 1..Len(versions) : IsOf(answer[r], request[r], versions[n])
    BY ReturnedCall
  <2>3. ASSUME a.op = "search"
        PROVE  Len(result[r].documents) = a.items
    <3>1. request[r].items = a.items /\ a.items \in Nat
      BY <2>1, <2>3, ArgumentTypes DEF Carries
    <3>2. SearchAnswer(answer[r], request[r], versions[n])
      BY <2>1, <2>2, <2>3 DEF IsOf
    <3>3. DOMAIN answer[r].results = 1..a.items
      <4>1. PICK found :
              answer[r] = [results |-> [i \in 1..a.items |->
                             [d \in found[i] |-> Shown(versions[n][d], request[r])]]]
        BY <3>1, <3>2 DEF SearchAnswer
      <4> QED
        BY <4>1
    <3>4. result[r].documents =
            [i \in 1..a.items |-> Decoded(answer[r].results[i])]
      BY <2>1, <2>3, <3>3, SearchResult
    <3> QED
      BY <3>1, <3>4
  <2> QED
    BY <2>1, <2>2, <2>3, GroupsOfVersion
<1> QED
  BY <1>1, AnswersInvariance, PTL

LEMMA SmallCount ==
    ASSUME NEW x \in 0..Half - 1
    PROVE  Narrow(x) = x
<1> DEFINE m == 2 * Half
           y == x + Half
<1>1. m \in Nat \ {0} /\ y \in 0..m - 1
  BY HalfAssumption
<1> HIDE DEF m, y
<1>2. y % m = y
  BY <1>1, SMT
<1> QED
  BY <1>2, HalfAssumption DEF Narrow, m, y

\* affectedCount is the number of documents a dele removed, as long as an int
\* holds it.
THEOREM CountsAreExact == Spec => []AffectedCountIsExact
<1>1. IInv /\ AnswerInv => AffectedCountIsExact
  <2> SUFFICES ASSUME IInv, AnswerInv, NEW n \in 1..Len(effects),
                      effects[n] \in Acknowledged, Is(effects[n], {"dele"}),
                      Cardinality(Removed(n)) < Half
               PROVE  result[effects[n]].affectedCount = Cardinality(Removed(n))
    BY DEF AffectedCountIsExact, Removed
  <2> DEFINE w == effects[n]
  <2>1. /\ w \in Calls /\ result[w] = Written(w) /\ request[w].op = "dele"
    BY ReturnedCall DEF Is, Carries
  <2>2. answer[w].affectedCount = Cardinality(Removed(n))
    BY <2>1 DEF AnswerInv
  <2>3. Cardinality(Removed(n)) \in 0..Half - 1
    <3>1. IsFiniteSet(Removed(n))
      BY IdsAssumption, FS_Subset DEF Removed
    <3>2. Cardinality(Removed(n)) \in Nat
      BY <3>1, FS_CardinalityType
    <3> QED
      BY <3>2, HalfAssumption
  <2>4. Written(w) = [affectedCount |-> Narrow(answer[w].affectedCount)]
    BY <2>1 DEF Written
  <2> QED
    BY <2>1, <2>2, <2>3, <2>4, SmallCount
<1> QED
  BY <1>1, AnswersInvariance, PTL

(***************************************************************************)
(* Where the fields come from.                                             *)
(***************************************************************************)

\* Each of the fields of docs was there before or is given by call c.
GivenBy(c, docs) ==
    \A d \in Ids : docs[d] # None =>
        \A k \in DOMAIN docs[d].fields :
            \/ Gives(c, Len(versions), d, k, docs[d].fields[k])
            \/ /\ Current[d] # None
               /\ k \in DOMAIN AsSeen(Current[d]).fields
               /\ docs[d].fields[k] = AsSeen(Current[d]).fields[k]

\* Each field of a version was given by a call carried out before it.
OriginInv ==
    \A n \in 1..Len(versions) : \A d \in Ids : versions[n][d] # None =>
        \A k \in DOMAIN AsSeen(versions[n][d]).fields : \E m \in 1..n - 1 :
            Gives(effects[m], m, d, k, AsSeen(versions[n][d]).fields[k])

LEMMA OverwriteGiven ==
    ASSUME NEW old, NEW x \in Document
    PROVE  Overwrite(old, ReadBack(x)).fields = ReadBack(x).fields
BY DEF Overwrite, ReadBack

LEMMA StoreGiven ==
    ASSUME IInv, NEW c \in Calls,
           \/ ServerUpserts(c) \/ ServerUpdates(c)
           \/ \E gone \in SUBSET Ids : ServerDeletes(c, gone)
           \/ ServerQueries(c) \/ ServerSearches(c) \/ ServerCounts(c)
    PROVE  \E store \in Stores : /\ GivenBy(c, SeenOf(store))
                                 /\ \E op, reply : Executes(c, op, store, reply)
<1>1. /\ Current \in Stores /\ Len(versions) \in Nat \ {0}
      /\ \A d \in Ids : (AsSeen(Current[d]) = None) <=> (Current[d] = None)
  BY CurrentIsStore, AsSeenNone DEF IInv, Stores
<1>2. CASE ServerUpserts(c)
  <2> DEFINE a == args[c]
             store == Overwriting(request[c].documents)
             docs == SeenOf(store)
  <2>1. Executes(c, "upsert", store,
                 [affectedCount |-> Cardinality(DOMAIN request[c].documents)])
    BY <1>2 DEF ServerUpserts, Overwriting
  <2>2. a \in Arguments /\ Carries(request[c], a) /\ request[c].op = "upsert"
    BY <2>1 DEF Executes, Asks, IInv, Linked
  <2>3. /\ a.op = "upsert" /\ a # None
        /\ request[c].documents = [d \in DOMAIN a.documents |-> ToProto(a.documents[d])]
    BY <2>2, NoArguments DEF Carries
  <2>4. /\ store \in Stores
        /\ docs = [d \in Ids |->
                     IF d \in DOMAIN a.documents
                     THEN Overwrite(AsSeen(Current[d]), ReadBack(a.documents[d]))
                     ELSE AsSeen(Current[d])]
    BY <2>2, <2>3, UpsertedStore DEF IInv
  <2>5. ASSUME NEW d \in Ids, docs[d] # None, NEW k \in DOMAIN docs[d].fields
        PROVE  \/ Gives(c, Len(versions), d, k, docs[d].fields[k])
               \/ /\ Current[d] # None /\ k \in DOMAIN AsSeen(Current[d]).fields
                  /\ docs[d].fields[k] = AsSeen(Current[d]).fields[k]
    <3>1. CASE d \in DOMAIN a.documents
      <4>1. a.documents[d] \in Document
        BY <2>2, <2>3, <3>1, ArgumentTypes
      <4>2. docs[d].fields = ReadBack(a.documents[d]).fields
        BY <2>4, <3>1, <4>1, OverwriteGiven
      <4>3. /\ k \in DOMAIN a.documents[d].fields
            /\ docs[d].fields[k] = Readable(a.documents[d].fields[k])
        BY <4>2 DEF ReadBack
      <4> QED
        BY <2>3, <3>1, <4>3 DEF Gives, Is
    <3>2. CASE d \notin DOMAIN a.documents
      <4>1. docs[d] = AsSeen(Current[d])
        BY <2>4, <3>2
      <4> QED
        BY <1>1, <2>5, <4>1
    <3> QED
      BY <3>1, <3>2
  <2>6. GivenBy(c, docs)
    BY <2>5 DEF GivenBy
  <2> QED
    BY <2>1, <2>4, <2>6
<1>3. CASE ServerUpdates(c)
  <2> DEFINE a == args[c]
             selected == Selected(Current, request[c].ids, request[c].filter)
             store == Merging(selected, request[c].update)
             docs == SeenOf(store)
             read == ReadBack(a.change)
  <2>1. Executes(c, "update", store, [affectedCount |-> Cardinality(selected)])
    BY <1>3 DEF ServerUpdates, Merging
  <2>2. a \in Arguments /\ Carries(request[c], a) /\ request[c].op = "update"
    BY <2>1 DEF Executes, Asks, IInv, Linked
  <2>3. /\ a.op = "update" /\ a # None
        /\ request[c].update = ToProto(a.change)
        /\ selected = Selected(Current, a.ids, a.filter)
    BY <2>2, NoArguments DEF Carries
  <2>4. /\ store \in Stores
        /\ docs = [d \in Ids |-> IF d \in selected
                                 THEN Merge(AsSeen(Current[d]), read)
                                 ELSE AsSeen(Current[d])]
    BY <2>2, <2>3, UpdatedStore DEF IInv
  <2>5. ASSUME NEW d \in selected
        PROVE  /\ Current[d] # None /\ (a.ids = {} \/ d \in a.ids)
               /\ d \in Meeting(Len(versions), a.filter)
    <3>1. Current[d] # None /\ (a.ids = {} \/ d \in a.ids)
      BY <2>3 DEF Selected
    <3>2. d \in Selected(Current, {}, a.filter)
      BY <2>3 DEF Selected
    <3>3. a.filter \in Filters
      BY <2>2, <2>3, ArgumentTypes
    <3>4. Selected(Current, {}, a.filter) = Meeting(Len(versions), a.filter)
      BY <1>1, <3>3, SelectedMeet DEF Current
    <3> QED
      BY <3>1, <3>2, <3>4
  <2>6. ASSUME NEW d \in Ids, docs[d] # None, NEW k \in DOMAIN docs[d].fields
        PROVE  \/ Gives(c, Len(versions), d, k, docs[d].fields[k])
               \/ /\ Current[d] # None /\ k \in DOMAIN AsSeen(Current[d]).fields
                  /\ docs[d].fields[k] = AsSeen(Current[d]).fields[k]
    <3> DEFINE old == AsSeen(Current[d])
    <3>1. CASE d \in selected
      <4>1. docs[d] = Merge(old, read)
        BY <2>4, <3>1
      <4>2. /\ Current[d] # None /\ (a.ids = {} \/ d \in a.ids)
            /\ d \in Meeting(Len(versions), a.filter)
        BY <2>5, <3>1
      <4> HIDE DEF docs, old, read, selected, store
      <4>3. /\ k \in DOMAIN old.fields \cup DOMAIN read.fields
            /\ docs[d].fields[k] = IF k \in DOMAIN read.fields THEN read.fields[k]
                                    ELSE old.fields[k]
        BY <2>6, <4>1 DEF Merge
      <4>4. CASE k \in DOMAIN read.fields
        <5>1. /\ k \in DOMAIN a.change.fields
              /\ docs[d].fields[k] = Readable(a.change.fields[k])
          BY <4>3, <4>4 DEF read, ReadBack
        <5> QED
          BY <2>3, <4>2, <5>1 DEF Gives, Is
      <4>5. CASE k \notin DOMAIN read.fields
        BY <4>2, <4>3, <4>5 DEF old
      <4> QED
        BY <4>4, <4>5
    <3>2. CASE d \notin selected
      <4>1. docs[d] = old
        BY <2>4, <3>2
      <4> QED
        BY <1>1, <2>6, <4>1
    <3> QED
      BY <3>1, <3>2
  <2>7. GivenBy(c, docs)
    BY <2>6 DEF GivenBy
  <2> QED
    BY <2>1, <2>4, <2>7
<1>4. CASE \E gone \in SUBSET Ids : ServerDeletes(c, gone)
  <2>1. PICK gone \in SUBSET Ids : ServerDeletes(c, gone)
    BY <1>4
  <2>2. Executes(c, "dele", Deleting(gone), [affectedCount |-> Cardinality(gone)])
    BY <2>1 DEF ServerDeletes, Deleting
  <2>3. /\ Deleting(gone) \in Stores
        /\ SeenOf(Deleting(gone)) =
              [d \in Ids |-> IF d \in gone THEN None ELSE AsSeen(Current[d])]
    BY DeletedStore DEF IInv
  <2>4. GivenBy(c, SeenOf(Deleting(gone)))
    BY <1>1, <2>3 DEF GivenBy
  <2> QED
    BY <2>2, <2>3, <2>4
<1>5. CASE ServerQueries(c) \/ ServerSearches(c) \/ ServerCounts(c)
  <2>1. \E op, reply : Executes(c, op, Current, reply)
    BY <1>5 DEF ServerQueries, ServerSearches, ServerCounts
  <2>2. GivenBy(c, SeenOf(Current))
    BY <1>1 DEF GivenBy, SeenOf
  <2> QED
    BY <1>1, <2>1, <2>2
<1> QED
  BY <1>2, <1>3, <1>4, <1>5

\* What a call carried out has given remains given: it keeps its arguments and its
\* place, and the versions are only added to.
LEMMA GivenStays ==
    ASSUME NEW w, NEW m, NEW d, NEW k, NEW x, Gives(w, m, d, k, x),
           versions'[m] = versions[m], args'[w] = args[w], effects'[m] = w
    PROVE  Gives(effects[m], m, d, k, x)'
<1>1. \A ops : Is(w, ops)' <=> Is(w, ops)
  BY DEF Is
<1>2. \A filter : Meeting(m, filter)' = Meeting(m, filter)
  BY DEF Meeting, Seen
<1>3. Gives(w, m, d, k, x)'
  BY <1>1, <1>2 DEF Gives
<1> QED
  BY <1>3 DEF Gives, Is

\* A version that was there keeps the origins of its fields.
LEMMA OriginStays ==
    ASSUME IInv, AnswerInv, OriginInv, NEW n \in 1..Len(versions),
           \A i \in 1..Len(versions) : versions'[i] = versions[i],
           \A i \in 1..Len(effects) : /\ effects'[i] = effects[i]
                                      /\ args'[effects[i]] = args[effects[i]]
    PROVE  \A d \in Ids : versions'[n][d] # None =>
              \A k \in DOMAIN AsSeen(versions'[n][d]).fields : \E m \in 1..n - 1 :
                  Gives(effects[m], m, d, k, AsSeen(versions[n][d]).fields[k])'
<1> SUFFICES ASSUME NEW d \in Ids, versions[n][d] # None,
                    NEW k \in DOMAIN AsSeen(versions[n][d]).fields
             PROVE  \E m \in 1..n - 1 :
                        Gives(effects[m], m, d, k, AsSeen(versions[n][d]).fields[k])'
  OBVIOUS
<1>1. PICK x : x = AsSeen(versions[n][d]).fields[k]
  OBVIOUS
<1>2. PICK m \in 1..n - 1 : Gives(effects[m], m, d, k, x)
  BY <1>1 DEF OriginInv
<1>3. m \in 1..Len(effects) /\ m \in 1..Len(versions)
  BY DEF IInv, Shape
<1>4. Gives(effects[m], m, d, k, x)'
  <2>1. PICK w : w = effects[m]
    OBVIOUS
  <2> QED
    BY <1>2, <1>3, <2>1, GivenStays
<1>5. x = (AsSeen(versions[n][d]).fields[k])'
  BY <1>1
<1> QED
  BY <1>4, <1>5

\* Every field of every version was given by some call.
THEOREM OriginInvariance == Spec => []OriginInv
<1>1. Init => OriginInv
  <2> SUFFICES ASSUME Init, NEW n \in 1..Len(versions), NEW d \in Ids
               PROVE  versions[n][d] = None
    BY DEF OriginInv
  <2> QED
    BY DEF Init
<1>2. OriginInv /\ IInv /\ AnswerInv /\ [Next]_vars => OriginInv'
  <2> SUFFICES ASSUME OriginInv, IInv, AnswerInv, [Next]_vars PROVE OriginInv'
    OBVIOUS
  <2>1. CASE UNCHANGED <<args, versions, effects>>
    BY <2>1, OriginStays DEF OriginInv
  <2>2. ASSUME NEW c \in Calls, NEW a \in Arguments, Invoke(c, a)
        PROVE  OriginInv'
    <3>1. /\ outcome[c] = "unissued" /\ args' = [args EXCEPT ![c] = a]
          /\ versions' = versions /\ effects' = effects
      BY <2>2 DEF Invoke, Remote!Issue
    <3>2. ASSUME NEW i \in 1..Len(effects)
          PROVE  args'[effects[i]] = args[effects[i]]
      <4>1. effects[i] \in Calls /\ Remote!HasEffect(effects[i])
        BY DEF IInv, Shape, Remote!HasEffect
      <4>2. effects[i] # c
        BY <3>1, <4>1 DEF AnswerInv
      <4> QED
        BY <3>1, <4>1, <4>2 DEF IInv, Shape
    <3> QED
      BY <3>1, <3>2, OriginStays DEF OriginInv
  <2>3. ASSUME NEW c \in Calls,
               \/ ServerUpserts(c) \/ ServerUpdates(c)
               \/ \E gone \in SUBSET Ids : ServerDeletes(c, gone)
               \/ ServerQueries(c) \/ ServerSearches(c) \/ ServerCounts(c)
        PROVE  OriginInv'
    <3>1. PICK store \in Stores : /\ GivenBy(c, SeenOf(store))
                                 /\ \E op, reply : Executes(c, op, store, reply)
      BY <2>3, StoreGiven
    <3> PICK N : N = Len(versions)
      OBVIOUS
    <3>2. /\ args' = args /\ versions' = Append(versions, store)
          /\ effects' = Append(effects, c)
      BY <3>1 DEF Executes, Remote!TakeEffect
    <3>3. /\ Len(versions) = N /\ N \in Nat \ {0} /\ N = Len(effects) + 1
          /\ Len(versions') = N + 1
          /\ \A i \in 1..N : versions'[i] = versions[i]
          /\ versions'[N + 1] = store
          /\ \A i \in 1..Len(effects) : effects'[i] = effects[i]
          /\ effects'[N] = c
      BY <3>2, AppendProperties DEF IInv, Shape
    <3>4. ASSUME NEW d \in Ids, store[d] # None,
                 NEW k \in DOMAIN AsSeen(store[d]).fields
          PROVE  \E m \in 1..N :
                    /\ Gives(effects[m], m, d, k, AsSeen(store[d]).fields[k])'
      <4>1. store[d] \in ProtoDocument \cup {None}
        BY DEF Stores
      <4>2. SeenOf(store)[d] = AsSeen(store[d]) /\ AsSeen(store[d]) # None
        BY <3>4, <4>1, AsSeenNone DEF SeenOf
      <4>3. PICK x : x = AsSeen(store[d]).fields[k]
        OBVIOUS
      <4>4. CASE Gives(c, N, d, k, x)
        <5>2. versions'[N] = versions[N] /\ args'[c] = args[c] /\ effects'[N] = c
          BY <3>2, <3>3
        <5>1. Gives(effects[N], N, d, k, x)'
          BY <4>4, <5>2, GivenStays
        <5> QED
          BY <3>3, <4>3, <5>1
      <4>5. CASE /\ Current[d] # None /\ k \in DOMAIN AsSeen(Current[d]).fields
                 /\ x = AsSeen(Current[d]).fields[k]
        <5>1. N \in 1..Len(versions) /\ Current = versions[N]
          BY <3>3 DEF Current
        <5>2. PICK m \in 1..N - 1 : Gives(effects[m], m, d, k, x)
          BY <4>5, <5>1 DEF OriginInv
        <5>3. m \in 1..Len(effects) /\ m \in 1..N
          BY <3>3
        <5>4. PICK w : w = effects[m]
          OBVIOUS
        <5>6. /\ versions'[m] = versions[m] /\ args'[w] = args[w] /\ effects'[m] = w
              /\ Gives(w, m, d, k, x)
          BY <3>2, <3>3, <5>2, <5>3, <5>4
        <5>5. Gives(effects[m], m, d, k, x)'
          BY <5>6, GivenStays
        <5> QED
          BY <4>3, <5>3, <5>5
      <4> QED
        BY <3>1, <4>2, <4>3, <4>4, <4>5 DEF GivenBy
    <3>5. ASSUME NEW n \in 1..N + 1
          PROVE  \A d \in Ids : versions'[n][d] # None =>
                    \A k \in DOMAIN AsSeen(versions'[n][d]).fields :
                        \E m \in 1..n - 1 :
                           Gives(effects[m], m, d, k, AsSeen(versions[n][d]).fields[k])'
      <4>1. CASE n \in 1..N
        BY <3>2, <3>3, <4>1, OriginStays
      <4>2. CASE n = N + 1
        <5>1. versions'[n] = store /\ n - 1 = N
          BY <3>3, <4>2
        <5> QED
          BY <3>4, <5>1
      <4>3. n \in 1..N \/ n = N + 1
        BY <3>3
      <4> QED
        BY <4>1, <4>2, <4>3
    <3> QED
      BY <3>3, <3>5 DEF OriginInv
  <2>4. ASSUME NEW c \in Calls, Handled(c) \/ Fail(c) PROVE OriginInv'
    BY <2>1, <2>4, HandledStep
  <2> QED
    BY <2>1, <2>2, <2>3, <2>4 DEF Next, Handled, vars
<1> QED
  BY <1>1, <1>2, AnswersInvariance, PTL DEF Spec

\* Whatever a query or search hands out was given to that document by a call that
\* was carried out before, an upsert of it or an update that selected it then,
\* with the same value and type, but for the empty array.
THEOREM FieldsAreGiven == Spec => []NothingInvented
<1>1. IInv /\ AnswerInv /\ OriginInv => NothingInvented
  <2> SUFFICES ASSUME IInv, AnswerInv, OriginInv, NEW n \in 1..Len(effects),
                      effects[n] \in Acknowledged, Is(effects[n], {"query", "search"}),
                      NEW documents \in HandedOut(effects[n]),
                      NEW d \in DOMAIN documents,
                      NEW k \in DOMAIN documents[d].fields
               PROVE  \E m \in 1..n - 1 :
                         Gives(effects[m], m, d, k, documents[d].fields[k])
    BY DEF NothingInvented
  <2> DEFINE r == effects[n]
  <2>1. PICK i \in 1..n : IsOf(answer[r], request[r], versions[i])
    BY DEF AnswerInv
  <2>2. i \in 1..Len(versions) /\ \A m \in 1..i - 1 : m \in 1..n - 1
    BY DEF IInv, Shape
  <2>3. /\ d \in Meeting(i, args[r].filter)
        /\ documents[d] = Shown(Seen(i)[d], args[r])
    BY <2>1, <2>2, GroupsOfVersion DEF Is
  <2> DEFINE seen == AsSeen(versions[i][d])
  <2>4. /\ d \in Ids /\ versions[i][d] # None
        /\ documents[d] = Shown(seen, args[r])
    <3>1. d \in Ids /\ Seen(i)[d] # None
      BY <2>3 DEF Meeting
    <3>2. seen = Seen(i)[d]
      BY <3>1 DEF Seen, AsSeen
    <3> QED
      BY <2>3, <3>1, <3>2 DEF AsSeen
  <2>5. k \in DOMAIN seen.fields /\ documents[d].fields[k] = seen.fields[k]
    <3> HIDE DEF seen
    <3>1. documents[d].fields = IF args[r].outputFields = {} THEN seen.fields
                                ELSE Restrict(seen.fields,
                                        args[r].outputFields \cap DOMAIN seen.fields)
      BY <2>4 DEF Shown
    <3> QED
      BY <3>1 DEF Restrict
  <2> QED
    BY <2>2, <2>4, <2>5 DEF OriginInv
<1> QED
  BY <1>1, AnswersInvariance, OriginInvariance, PTL
=============================================================================
